---------------------------- MODULE Spec2Model ----------------------------
(***************************************************************************)
(* A model of hepconduit: the event model, the LHE / HepMC3 / Parquet      *)
(* readers and writers, the vertex reconstructor, the fingerprinter, the   *)
(* validator, the filter sub-language, the loss observer and the convert   *)
(* pipeline.                                                               *)
(*                                                                         *)
(* Numbers.  Momenta, energies, masses and weights are fixed-point         *)
(* integers counted in ticks; abs_tol (1e-4) is TicksPerTol ticks, so a    *)
(* quarter of a bucket is representable.  Text formatting with 16 or 17    *)
(* significant digits is exact on these values.                            *)
(*                                                                         *)
(* Files.  A text file is a sequence of lines; a line is a record          *)
(* [tag, ints, strs]: the record tag (first token), the numeric tokens and *)
(* the word tokens that follow it.                                         *)
(***************************************************************************)
EXTENDS Integers, Sequences, FiniteSets, TLC

VARIABLES
    files,          \* SpecFormats: the chain of files, each [format, lines, table]
    vevent,         \* SpecValidate: the event under validation
    vissues,        \* SpecValidate: the issues validate_event returned
    vstage,         \* SpecValidate: "fresh" | "checked" | "flipped" | "rechecked"
    vflip,          \* SpecValidate: index (0-based) of the flipped particle, or -1
    fexpr,          \* SpecFilter: the expression handed to compile_filter_fn
    fstage,         \* SpecFilter: "source" | "compiled" | "rejected" | "evaluated"
    fevent,         \* SpecFilter: the event the compiled filter is evaluated on
    fresult,        \* SpecFilter: what evaluation returned
    cv,             \* SpecConvert: the state of one convert() call
    fp,             \* SpecFingerprint: [ev, base, op, touched] an event and the one it came from
    reg,            \* SpecRegistry: [registry, log, last] the format registry and its call log
    rd,             \* SpecRead: [format, lines, events, run] one reader call on an edge-case file
    vtx,            \* SpecVertices: [input, hepmc3, parquet, ...] an event and its reconstructed graphs
    stream,         \* SpecStream: one validate_stream generator and what its consumer received
    pmeta,          \* SpecMeta: [metadata, run] Parquet schema metadata and the RunInfo decoded from it
    lread           \* SpecLhe: one iter_lhe generator and what its consumer received

vars == <<files, vevent, vissues, vstage, vflip, fexpr, fstage, fevent, fresult, cv, fp, reg, rd, vtx, stream, pmeta, lread>>

(***************************************************************************)
(* Bounds of the model.                                                    *)
(***************************************************************************)
MaxEvents == 2
MaxChain == 2
MaxTime == 2

(***************************************************************************)
(* Program constants.                                                      *)
(***************************************************************************)
TicksPerTol == 4
ToleranceDenominator == 10000
MaxExamples == 5

One == ToleranceDenominator * TicksPerTol

(***************************************************************************)
(* Generic helpers.                                                        *)
(***************************************************************************)
Abs(x) == IF x < 0 THEN -x ELSE x

Max2(a, b) == IF a >= b THEN a ELSE b

Range(s) == {s[i] : i \in 1..Len(s)}

RECURSIVE SortInts(_)
SortInts(S) ==
    IF S = {} THEN << >>
    ELSE LET m == CHOOSE x \in S : \A y \in S : x <= y
         IN <<m>> \o SortInts(S \ {m})

RECURSIVE SumSeq(_)
SumSeq(s) == IF s = << >> THEN 0 ELSE Head(s) + SumSeq(Tail(s))

\* Lexicographic order on integer tuples, as Python orders tuples.
RECURSIVE TupleLess(_, _)
TupleLess(a, b) ==
    IF b = << >> THEN FALSE
    ELSE IF a = << >> THEN TRUE
    ELSE IF Head(a) # Head(b) THEN Head(a) < Head(b)
    ELSE TupleLess(Tail(a), Tail(b))

RECURSIVE InsertSorted(_, _)
InsertSorted(t, s) ==
    IF s = << >> THEN <<t>>
    ELSE IF TupleLess(Head(s), t) THEN <<Head(s)>> \o InsertSorted(t, Tail(s))
    ELSE <<t>> \o s

\* list.sort() of a list of tuples.
RECURSIVE SortTuples(_)
SortTuples(s) == IF s = << >> THEN << >> ELSE InsertSorted(Head(s), SortTuples(Tail(s)))

(***************************************************************************)
(* Event model (models.py).                                                *)
(***************************************************************************)
NoAttributes == {}

Particle(pdg, st, px, py, pz, e, m) ==
    [pdg_id |-> pdg, status |-> st, px |-> px, py |-> py, pz |-> pz,
     energy |-> e, mass |-> m, mother1 |-> 0, mother2 |-> 0,
     color1 |-> 0, color2 |-> 0, spin |-> 9,
     barcode |-> 0, vertex_barcode |-> 0, end_vertex_barcode |-> 0,
     attributes |-> NoAttributes]

Vertex(bc) == [barcode |-> bc, pos |-> <<0, 0, 0, 0>>, incoming |-> << >>, outgoing |-> << >>]

\* Event.extra, a dict: hepmc3 tells whether the key "hepmc3" is set, E_raw and
\* unknown_records are the entries of extra["hepmc3"], A and C its keys "A" and "C"
\* (empty: no such key), lhe the value of extra["lhe"] (empty: no such key).
NoExtra == [hepmc3 |-> FALSE, E_raw |-> << >>, unknown_records |-> << >>,
            A |-> << >>, C |-> << >>, lhe |-> << >>,
            validation_issues |-> << >>]

Event(n) ==
    [event_number |-> n, particles |-> << >>, vertices |-> << >>, weights |-> <<One>>,
     process_id |-> 0, scale |-> 0, alpha_qed |-> 0, alpha_qcd |-> 0,
     n_particles |-> 0, extra |-> NoExtra]

NoUnits == [set |-> FALSE, vals |-> << >>]

RunInfo ==
    [beam_pdg_id |-> <<0, 0>>, beam_energy |-> <<0, 0>>, weight_names |-> << >>,
     generator_name |-> "", generator_version |-> "", units |-> NoUnits,
     F |-> << >>, C |-> << >>, raw_headers |-> << >>]

Line(tag, ints, strs) == [tag |-> tag, ints |-> ints, strs |-> strs]

(***************************************************************************)
(* Fingerprinter (fingerprint.py).                                         *)
(***************************************************************************)
\* int(round(x / abs_tol)): Python rounds halves to the even neighbour.
_quantize(x) ==
    LET q == x \div TicksPerTol
        r == x % TicksPerTol
    IN IF 2 * r < TicksPerTol THEN q
       ELSE IF 2 * r > TicksPerTol THEN q + 1
       ELSE IF q % 2 = 0 THEN q ELSE q + 1

_particle_graph_key(p) == <<p.barcode, p.vertex_barcode, p.end_vertex_barcode>>

\* A projection that leaves the energy unbucketed.
_particle_keyRaw(p) ==
    <<p.status, p.pdg_id, _quantize(p.px), _quantize(p.py), _quantize(p.pz), p.energy>>

_particle_key(p) ==
    <<p.status, p.pdg_id, _quantize(p.px), _quantize(p.py), _quantize(p.pz), _quantize(p.energy)>>

DefaultConfig ==
    [include_intermediate |-> TRUE, include_incoming |-> TRUE, include_weights |-> FALSE,
     include_graph |-> FALSE, include_process_id |-> FALSE]

StrictConfig == [DefaultConfig EXCEPT !.include_graph = TRUE, !.include_weights = TRUE]

RECURSIVE SelectKeys(_, _)
SelectKeys(ps, cfg) ==
    IF ps = << >> THEN << >>
    ELSE LET p == Head(ps)
             skip == \/ p.status = 3
                     \/ p.status = -1 /\ ~cfg.include_incoming
                     \/ p.status = 2 /\ ~cfg.include_intermediate
         IN (IF skip THEN << >> ELSE <<_particle_key(p)>>) \o SelectKeys(Tail(ps), cfg)

RECURSIVE GraphKeys(_)
GraphKeys(ps) ==
    IF ps = << >> THEN << >>
    ELSE (IF Head(ps).status = 3 THEN << >> ELSE <<_particle_graph_key(Head(ps))>>)
         \o GraphKeys(Tail(ps))

\* A fingerprint that absorbs the particle tuples in event order.
fingerprint_eventUnsorted(ev, cfg) ==
    [version |-> "event_fingerprint_v1",
     process |-> IF cfg.include_process_id THEN <<ev.process_id>> ELSE << >>,
     parts |-> SelectKeys(ev.particles, cfg),
     graph |-> IF cfg.include_graph THEN <<SortTuples(GraphKeys(ev.particles))>> ELSE << >>,
     weights |-> IF cfg.include_weights /\ ev.weights # << >>
                 THEN <<[i \in 1..Len(ev.weights) |-> _quantize(ev.weights[i])]>>
                 ELSE << >>]

\* SHA-256 is taken to be collision free: the digest stands for the bytes absorbed,
\* here the sections of the byte string in the order the code absorbs them.
fingerprint_event(ev, cfg) ==
    [version |-> "event_fingerprint_v1",
     process |-> IF cfg.include_process_id THEN <<ev.process_id>> ELSE << >>,
     parts |-> SortTuples(SelectKeys(ev.particles, cfg)),
     graph |-> IF cfg.include_graph THEN <<SortTuples(GraphKeys(ev.particles))>> ELSE << >>,
     weights |-> IF cfg.include_weights /\ ev.weights # << >>
                 THEN <<[i \in 1..Len(ev.weights) |-> _quantize(ev.weights[i])]>>
                 ELSE << >>]

fingerprints(events, cfg) == [i \in 1..Len(events) |-> fingerprint_event(events[i], cfg)]


(***************************************************************************)
(* HepMC3 Asciiv3 reader (io/hepmc3.py).                                   *)
(***************************************************************************)
\* Status mapping on input: 4 -> -1, 1 -> 1, {2,3} -> 2, anything else unchanged.
MapStatus(st) ==
    IF st = 4 THEN -1
    ELSE IF st = 1 THEN 1
    ELSE IF st \in {2, 3} THEN 2
    ELSE st

\* A P record: P bc pdg st px py pz e m [pv ev]; fewer than 9 tokens: skipped.
ParseP(ints) ==
    LET st == ints[3]
        has == Len(ints) >= 10
        p0 == Particle(ints[2], MapStatus(st), ints[4], ints[5], ints[6], ints[7], ints[8])
    IN [p0 EXCEPT !.barcode = ints[1],
                  !.vertex_barcode = IF has THEN ints[9] ELSE 0,
                  !.end_vertex_barcode = IF has THEN ints[10] ELSE 0,
                  !.attributes = IF MapStatus(st) # st
                                 THEN {<<"hepmc_status_raw", st>>} ELSE NoAttributes]

\* A V record: V id x y z t [nin nout in... out...]; short lists take what is there.
ParseV(ints) ==
    LET n == Len(ints)
        has == n >= 7
        nin == IF has THEN ints[6] ELSE 0
        nout == IF has THEN ints[7] ELSE 0
        lastIn == IF 7 + nin <= n THEN 7 + nin ELSE n
        lastOut == IF lastIn + nout <= n THEN lastIn + nout ELSE n
    IN [barcode |-> ints[1], pos |-> <<ints[2], ints[3], ints[4], ints[5]>>,
        incoming |-> IF has THEN SubSeq(ints, 8, lastIn) ELSE << >>,
        outgoing |-> IF has THEN SubSeq(ints, lastIn + 1, lastOut) ELSE << >>]

\* The vertices dict of the open event, attached sorted by barcode.
CloseEvent(st) ==
    LET keys == SortInts(DOMAIN st.verts)
        ev == [st.cur EXCEPT !.vertices = [i \in 1..Len(keys) |-> st.verts[keys[i]]]]
    IN IF st.open THEN Append(st.events, ev) ELSE st.events

\* One line of the reader's loop over the file.
HepMC3Step(st, ln) ==
    CASE ln.tag = "HepMC::" ->
            [st EXCEPT !.run.raw_headers = Append(@, ln)]
      [] ln.tag = "U" ->
            [st EXCEPT !.run.units =
                IF Len(ln.strs) >= 2 THEN [set |-> TRUE, vals |-> SubSeq(ln.strs, 1, 2)]
                ELSE [set |-> TRUE, vals |-> << >>]]
      [] ln.tag = "N" ->
            IF Len(ln.ints) + Len(ln.strs) = 0 THEN st
            ELSE LET n == IF ln.ints # << >> THEN ln.ints[1] ELSE 0
                     names == IF ln.ints # << >> THEN ln.strs ELSE Tail(ln.strs)
                 IN [st EXCEPT !.run.weight_names =
                        IF n # 0 /\ Len(names) >= n THEN SubSeq(names, 1, n) ELSE names]
      [] ln.tag = "F" -> [st EXCEPT !.run.F = Append(@, ln)]
      [] ln.tag = "C" -> [st EXCEPT !.run.C = Append(@, ln)]
      [] ln.tag = "E" ->
            [st EXCEPT !.events = CloseEvent(st),
                       !.open = TRUE,
                       !.verts = << >>,
                       !.cur = [Event(IF ln.ints # << >> THEN ln.ints[1] ELSE 0)
                                EXCEPT !.extra = [NoExtra EXCEPT !.hepmc3 = TRUE,
                                                                 !.E_raw = ln.ints]]]
      [] OTHER ->
            IF ~st.open THEN st
            ELSE CASE ln.tag = "W" ->
                        IF ln.ints # << >> THEN [st EXCEPT !.cur.weights = ln.ints] ELSE st
                   [] ln.tag = "V" ->
                        IF Len(ln.ints) < 5 THEN st
                        ELSE LET v == ParseV(ln.ints)
                             IN [st EXCEPT !.verts =
                                    [b \in DOMAIN st.verts \cup {v.barcode} |->
                                        IF b = v.barcode THEN v ELSE st.verts[b]]]
                   [] ln.tag = "P" ->
                        IF Len(ln.ints) < 8 THEN st
                        ELSE [st EXCEPT !.cur.particles = Append(@, ParseP(ln.ints))]
                   [] OTHER ->
                        [st EXCEPT !.cur.extra.unknown_records = Append(@, ln)]

RECURSIVE HepMC3Fold(_, _)
HepMC3Fold(st, lines) ==
    IF lines = << >> THEN st ELSE HepMC3Fold(HepMC3Step(st, Head(lines)), Tail(lines))

\* read_hepmc3: the run info and the events of the whole file.
read_hepmc3(lines) ==
    LET st == HepMC3Fold([run |-> RunInfo, events |-> << >>, open |-> FALSE,
                          cur |-> Event(0), verts |-> << >>], lines)
    IN [run_info |-> st.run, events |-> CloseEvent(st)]


(***************************************************************************)
(* Vertex reconstructor of the HepMC3 writer (io/hepmc3.py).               *)
(***************************************************************************)
AppendNew(s, x) == IF x \in Range(s) THEN s ELSE Append(s, x)

IndexOf(s, x) == CHOOSE i \in 1..Len(s) : s[i] = x

\* for i, p in enumerate(ev.particles, start=1): if not p.barcode: p.barcode = i
AssignBarcodes(ps) ==
    [i \in 1..Len(ps) |-> IF ps[i].barcode = 0 THEN [ps[i] EXCEPT !.barcode = i] ELSE ps[i]]

\* The key without canonicalisation: the mother pair as the particle gives it.
MotherKeyAsGiven(p) == <<p.mother1, p.mother2>>

\* _vtx_for's key: the mother pair in sorted form.
MotherKey(p) ==
    IF p.mother1 <= p.mother2 THEN <<p.mother1, p.mother2>> ELSE <<p.mother2, p.mother1>>

\* The keys of vtx_map in creation order: key number k is vertex -k.
RECURSIVE VtxKeys(_, _)
VtxKeys(ps, keys) ==
    IF ps = << >> THEN keys
    ELSE VtxKeys(Tail(ps),
                 IF Head(ps).status = -1 THEN keys ELSE AppendNew(keys, MotherKey(Head(ps))))

\* The mothers whose barcodes a child adds to its vertex: {m1, m2} - {0}, in range,
\* visited in ascending order (CPython iterates a set of small positive ints so).
MotherIndices(p, n) ==
    SortInts({m \in {p.mother1, p.mother2} \ {0} : 1 <= m /\ m <= n})

RECURSIVE AppendAllNew(_, _)
AppendAllNew(s, xs) ==
    IF xs = << >> THEN s ELSE AppendAllNew(AppendNew(s, Head(xs)), Tail(xs))

\* Third loop: the incoming and outgoing lists of vertex vid, children in order.
RECURSIVE FillVertex(_, _, _, _)
FillVertex(v, ps, i, prod) ==
    IF i > Len(ps) THEN v
    ELSE IF prod[i] # v.barcode THEN FillVertex(v, ps, i + 1, prod)
    ELSE LET ms == MotherIndices(ps[i], Len(ps))
             mbars == [k \in 1..Len(ms) |-> ps[ms[k]].barcode]
         IN FillVertex([v EXCEPT !.incoming = AppendAllNew(@, mbars),
                                 !.outgoing = AppendNew(@, ps[i].barcode)],
                       ps, i + 1, prod)

\* incoming_to_vtx.get(bc, 0): vertices are visited -1, -2, ... and later ones overwrite.
EndVertexOf(bc, vs) ==
    LET hits == {k \in 1..Len(vs) : bc \in Range(vs[k].incoming)}
    IN IF hits = {} THEN 0 ELSE vs[CHOOSE k \in hits : \A j \in hits : j <= k].barcode

_build_vertices_from_mothers(ev) ==
    IF ev.vertices # << >> THEN ev
    ELSE LET ps1 == AssignBarcodes(ev.particles)
             keys == VtxKeys(ps1, << >>)
             prod == [i \in 1..Len(ps1) |->
                        IF ps1[i].status = -1 THEN 0 ELSE -IndexOf(keys, MotherKey(ps1[i]))]
             vs == [k \in 1..Len(keys) |-> FillVertex(Vertex(-k), ps1, 1, prod)]
             ps2 == [i \in 1..Len(ps1) |->
                        [ps1[i] EXCEPT !.vertex_barcode = prod[i],
                                       !.end_vertex_barcode = EndVertexOf(ps1[i].barcode, vs)]]
         IN [ev EXCEPT !.particles = ps2,
                       !.vertices = [k \in 1..Len(vs) |-> vs[Len(vs) + 1 - k]]]

(***************************************************************************)
(* HepMC3 writer (io/hepmc3.py).                                           *)
(***************************************************************************)
\* Best-effort status on output: -1 -> 4, a preserved raw status wins.
OutStatus(p) ==
    LET raw == {a \in p.attributes : a[1] = "hepmc_status_raw"}
    IN IF raw # {} THEN (CHOOSE a \in raw : TRUE)[2]
       ELSE IF p.status = -1 THEN 4 ELSE p.status

WriteP(p, i) ==
    Line("P", <<IF p.barcode # 0 THEN p.barcode ELSE i, p.pdg_id, OutStatus(p),
                p.px, p.py, p.pz, p.energy, p.mass,
                p.vertex_barcode, p.end_vertex_barcode>>, << >>)

WriteV(v) ==
    Line("V", <<v.barcode>> \o v.pos \o <<Len(v.incoming), Len(v.outgoing)>>
              \o v.incoming \o v.outgoing, << >>)

\* vtx_by_id = {v.barcode: v for v in ev.vertices}: the last vertex of a barcode wins.
LastVertex(vs, bc) == vs[CHOOSE i \in 1..Len(vs) :
                            vs[i].barcode = bc /\ \A j \in i+1..Len(vs) : vs[j].barcode # bc]

HepMC3WriteEvent(ev0) ==
    LET ev == _build_vertices_from_mothers(ev0)
        ids == SortInts({ev.vertices[i].barcode : i \in 1..Len(ev.vertices)})
        trivial == ev.weights = << >> \/ ev.weights = <<One>>
    IN <<Line("E", <<ev.event_number>>, << >>)>>
       \o (IF trivial THEN << >> ELSE <<Line("W", ev.weights, << >>)>>)
       \o [k \in 1..Len(ids) |-> WriteV(LastVertex(ev.vertices, ids[k]))]
       \o [i \in 1..Len(ev.particles) |-> WriteP(ev.particles[i], i)]

RECURSIVE ConcatMap(_, _)
ConcatMap(Op(_), s) == IF s = << >> THEN << >> ELSE Op(Head(s)) \o ConcatMap(Op, Tail(s))

HepMC3Write(events, run) ==
    LET u == run.units
    IN <<Line("HepMC::", << >>, <<"Version", "3.0.0">>), Line("HepMC::", << >>, <<"Asciiv3">>)>>
       \o <<IF u.set /\ Len(u.vals) = 2 /\ u.vals[1] # "" /\ u.vals[2] # ""
            THEN Line("U", << >>, u.vals) ELSE Line("U", << >>, <<"GEV", "MM">>)>>
       \o (IF run.weight_names # << >>
           THEN <<Line("N", <<Len(run.weight_names)>>, run.weight_names)>> ELSE << >>)
       \o run.F \o run.C
       \o ConcatMap(HepMC3WriteEvent, events)


(***************************************************************************)
(* LHE writer and reader (io/lhe.py).                                      *)
(***************************************************************************)
LHEWriteEvent(ev) ==
    <<Line("<event>", << >>, << >>),
      Line("row", <<Len(ev.particles), ev.process_id,
                    IF ev.weights # << >> THEN ev.weights[1] ELSE One,
                    ev.scale, ev.alpha_qed, ev.alpha_qcd>>, << >>)>>
    \o [i \in 1..Len(ev.particles) |->
          LET p == ev.particles[i]
          IN Line("row", <<p.pdg_id, p.status, p.mother1, p.mother2, p.color1, p.color2,
                           p.px, p.py, p.pz, p.energy, p.mass, 0, p.spin>>, << >>)]
    \o <<Line("</event>", << >>, << >>)>>

LHEWrite(events, run) ==
    <<Line("<LesHouchesEvents>", << >>, << >>),
      Line("<init>", << >>, << >>),
      Line("row", run.beam_pdg_id \o run.beam_energy \o <<0, 0, 0, 0, 0, 0>>, << >>),
      Line("</init>", << >>, << >>)>>
    \o (IF run.generator_name # ""
        THEN <<Line("<generator>", << >>, <<run.generator_name, run.generator_version>>)>>
        ELSE << >>)
    \o ConcatMap(LHEWriteEvent, events)
    \o <<Line("</LesHouchesEvents>", << >>, << >>)>>

Skippable(ln) == ln.tag \in {"blank", "comment"}

\* The particle loop: range(nup) iterations, each taking one line of the block; a
\* blank or comment line uses up its iteration.
RECURSIVE ParseRows(_, _, _)
ParseRows(lines, idx, left) ==
    IF left = 0 \/ idx > Len(lines) THEN << >>
    ELSE IF Skippable(lines[idx]) THEN ParseRows(lines, idx + 1, left - 1)
    ELSE LET c == lines[idx].ints
             p == [Particle(c[1], c[2], c[7], c[8], c[9], c[10], c[11])
                    EXCEPT !.mother1 = c[3], !.mother2 = c[4],
                           !.color1 = c[5], !.color2 = c[6],
                           !.spin = IF Len(c) > 12 THEN c[13] ELSE 9]
         IN <<p>> \o ParseRows(lines, idx + 1, left - 1)

_parse_event_block(lines, event_number) ==
    LET heads == {i \in 1..Len(lines) : ~Skippable(lines[i])}
    IN IF heads = {} THEN Event(event_number)
       ELSE LET h == CHOOSE i \in heads : \A j \in heads : i <= j
                hp == lines[h].ints
                opt(k, d) == IF Len(hp) >= k THEN hp[k] ELSE d
            IN [Event(event_number) EXCEPT
                    !.particles = ParseRows(lines, h + 1, hp[1]),
                    !.process_id = opt(2, 0),
                    !.weights = <<opt(3, One)>>,
                    !.scale = opt(4, 0),
                    !.alpha_qed = opt(5, 0),
                    !.alpha_qcd = opt(6, 0),
                    !.n_particles = hp[1]]

\* iter_lhe: the blocks between <event> and </event>, numbered from 1.
RECURSIVE iter_lhe(_, _, _, _)
iter_lhe(lines, in_event, buf, event_no) ==
    IF lines = << >> THEN << >>
    ELSE LET ln == Head(lines)
         IN IF ~in_event
            THEN iter_lhe(Tail(lines), ln.tag = "<event>", << >>, event_no)
            ELSE IF ln.tag = "</event>"
            THEN <<_parse_event_block(buf, event_no + 1)>>
                 \o iter_lhe(Tail(lines), FALSE, << >>, event_no + 1)
            ELSE iter_lhe(Tail(lines), TRUE, Append(buf, ln), event_no)

\* LHEReader.read_run_info: the first data row of <init>, and the <generator> tag.
ReadRunInfoLHE(lines) ==
    LET inits == {i \in 1..Len(lines) : lines[i].tag = "<init>"}
        gens == {i \in 1..Len(lines) : lines[i].tag = "<generator>"}
        i0 == CHOOSE i \in inits : \A j \in inits : i <= j
        rows == {i \in i0+1..Len(lines) :
                    /\ ~Skippable(lines[i])
                    /\ \A j \in i0+1..i : lines[j].tag # "</init>"}
        r == CHOOSE i \in rows : \A j \in rows : i <= j
        beams == IF inits # {} /\ rows # {} /\ Len(lines[r].ints) >= 4
                 THEN lines[r].ints ELSE <<0, 0, 0, 0>>
        g == IF gens = {} THEN <<"", "">> ELSE lines[CHOOSE i \in gens : TRUE].strs
    IN [RunInfo EXCEPT !.beam_pdg_id = SubSeq(beams, 1, 2),
                       !.beam_energy = SubSeq(beams, 3, 4),
                       !.generator_name = g[1],
                       !.generator_version = g[2]]

ReadLHE(lines) ==
    [run_info |-> ReadRunInfoLHE(lines), events |-> iter_lhe(lines, FALSE, << >>, 0)]


(***************************************************************************)
(* Parquet writer and reader (io/parquet.py).  A table is its layout, its  *)
(* rows and its schema metadata.                                           *)
(***************************************************************************)
\* The last child, in particle order, that names particle j as a mother sets j's end vertex.
ParquetEndVertex(ps, j, prod) ==
    LET kids == {i \in 1..Len(ps) : j \in {ps[i].mother1, ps[i].mother2} \ {0}}
    IN IF kids = {} THEN ps[j].end_vertex_barcode
       ELSE prod[CHOOSE i \in kids : \A k \in kids : k <= i]

\* parquet.py's own _build_vertices_from_mothers: every particle, incoming ones too,
\* is given a production vertex; the lists are sorted(set(...)).
ParquetBuildVertices(ev) ==
    IF ev.vertices # << >> THEN ev
    ELSE LET ps1 == AssignBarcodes(ev.particles)
             n == Len(ps1)
             AllKeys[i \in 0..n] ==
                IF i = 0 THEN << >> ELSE AppendNew(AllKeys[i - 1], MotherKey(ps1[i]))
             keys == AllKeys[n]
             prod == [i \in 1..n |-> -IndexOf(keys, MotherKey(ps1[i]))]
             vs == [k \in 1..Len(keys) |->
                      [Vertex(-k) EXCEPT
                         !.outgoing = SortInts({ps1[i].barcode : i \in {i \in 1..n : prod[i] = -k}}),
                         !.incoming = SortInts({ps1[m].barcode : m \in
                            {m \in 1..n : \E i \in 1..n :
                                prod[i] = -k /\ m \in {ps1[i].mother1, ps1[i].mother2}}})]]
         IN [ev EXCEPT
                !.particles = [i \in 1..n |->
                    [ps1[i] EXCEPT !.vertex_barcode = prod[i],
                                   !.end_vertex_barcode = ParquetEndVertex(ps1, i, prod)]],
                !.vertices = [k \in 1..Len(vs) |-> vs[Len(vs) + 1 - k]]]

\* _ensure_vertices_from_particles: positions from the stored vertices, the lists
\* rebuilt from the particles' vertex_barcode / end_vertex_barcode.
_ensure_vertices_from_particles(ps, vs) ==
    LET n == Len(ps)
        ids == {vs[i].barcode : i \in 1..Len(vs)}
                 \cup ({ps[i].vertex_barcode : i \in 1..n} \ {0})
                 \cup ({ps[i].end_vertex_barcode : i \in 1..n} \ {0})
        order == SortInts(ids)
        posOf(b) == IF \E i \in 1..Len(vs) : vs[i].barcode = b
                    THEN LastVertex(vs, b).pos ELSE <<0, 0, 0, 0>>
    IN [k \in 1..Len(order) |->
          [barcode |-> order[k], pos |-> posOf(order[k]),
           incoming |-> SortInts({ps[i].barcode : i \in {i \in 1..n : ps[i].end_vertex_barcode = order[k]}}),
           outgoing |-> SortInts({ps[i].barcode : i \in {i \in 1..n : ps[i].vertex_barcode = order[k]}})]]

PosOf(ev, bc) ==
    IF bc # 0 /\ \E i \in 1..Len(ev.vertices) : ev.vertices[i].barcode = bc
    THEN LastVertex(ev.vertices, bc).pos ELSE <<0, 0, 0, 0>>

\* ParquetWriter.write, flat layout: one row per particle.
FlatRows(ev0) ==
    LET ev == ParquetBuildVertices(ev0)
    IN [i \in 1..Len(ev.particles) |->
          [event |-> [ev EXCEPT !.particles = << >>, !.vertices = << >>,
                                !.weights = IF ev.weights = << >> THEN <<One>> ELSE ev.weights],
           particle |-> ev.particles[i],
           prod_v |-> PosOf(ev, ev.particles[i].vertex_barcode),
           end_v |-> PosOf(ev, ev.particles[i].end_vertex_barcode)]]

\* ParquetWriter.write, columnar layout: one row per event.
ColumnarRow(ev0) ==
    LET ev == ParquetBuildVertices(ev0)
    IN <<[ev EXCEPT !.weights = IF ev.weights = << >> THEN <<One>> ELSE ev.weights]>>

ParquetWrite(events, run, columnar) ==
    [layout |-> IF columnar THEN "columnar" ELSE "flat",
     rows |-> IF columnar THEN ConcatMap(ColumnarRow, events) ELSE ConcatMap(FlatRows, events),
     metadata |-> [run_info_json |-> run]]

\* _read_columnar: one event per row.
ReadColumnarRow(row) ==
    LET ev == [row EXCEPT !.vertices = _ensure_vertices_from_particles(row.particles, row.vertices),
                          !.n_particles = Len(row.particles)]
    IN <<ParquetBuildVertices(ev)>>

\* _read_flat: rows grouped by event_number, events built in sorted(by_ev.items()) order.
ReadFlatEvent(rows, evn) ==
    LET mine == SelectSeq(rows, LAMBDA r : r.event.event_number = evn)
        parts == [i \in 1..Len(mine) |-> mine[i].particle]
        Seen[i \in 0..Len(mine)] ==
            IF i = 0 THEN << >>
            ELSE LET p == mine[i].particle
                     a == IF p.vertex_barcode # 0 THEN AppendNew(Seen[i - 1], p.vertex_barcode)
                          ELSE Seen[i - 1]
                 IN IF p.end_vertex_barcode # 0 THEN AppendNew(a, p.end_vertex_barcode) ELSE a
        vbs == Seen[Len(mine)]
        lastPos(b) ==
            LET hits == {i \in 1..Len(mine) : b \in {mine[i].particle.vertex_barcode,
                                                     mine[i].particle.end_vertex_barcode}}
                i == CHOOSE k \in hits : \A j \in hits : j <= k
            IN IF mine[i].particle.end_vertex_barcode = b THEN mine[i].end_v ELSE mine[i].prod_v
        verts == [k \in 1..Len(vbs) |-> [Vertex(vbs[k]) EXCEPT !.pos = lastPos(vbs[k])]]
        ev == [mine[1].event EXCEPT !.particles = parts, !.n_particles = Len(parts)]
    IN IF verts = << >> THEN ParquetBuildVertices(ev)
       ELSE [ev EXCEPT !.vertices = _ensure_vertices_from_particles(parts, verts)]

ReadParquet(table) ==
    [run_info |-> table.metadata.run_info_json,
     events |->
        IF table.layout = "columnar" THEN ConcatMap(ReadColumnarRow, table.rows)
        ELSE LET evns == SortInts({table.rows[i].event.event_number : i \in 1..Len(table.rows)})
             IN [k \in 1..Len(evns) |-> ReadFlatEvent(table.rows, evns[k])]]

(***************************************************************************)
(* read / write / convert without filter or validation (convert.py).       *)
(***************************************************************************)
NoTable == [layout |-> "none", rows |-> << >>, metadata |-> [run_info_json |-> RunInfo]]

TextFile(fmt, lines) == [format |-> fmt, lines |-> lines, table |-> NoTable]

ReadFile(f) ==
    CASE f.format = "lhe" -> ReadLHE(f.lines)
      [] f.format = "hepmc3" -> read_hepmc3(f.lines)
      [] f.format = "parquet" -> ReadParquet(f.table)

WriteFile(fmt, events, run, columnar) ==
    CASE fmt = "lhe" -> TextFile("lhe", LHEWrite(events, run))
      [] fmt = "hepmc3" -> TextFile("hepmc3", HepMC3Write(events, run))
      [] fmt = "parquet" ->
            [format |-> "parquet", lines |-> << >>, table |-> ParquetWrite(events, run, columnar)]

ConvertFile(f, fmt, columnar) ==
    LET r == ReadFile(f) IN WriteFile(fmt, r.events, r.run_info, columnar)


(***************************************************************************)
(* Validator (validation.py).  An issue's particle_index is <<i>> for the  *)
(* 0-based index i and << >> for None.                                     *)
(***************************************************************************)
ValidationIssue(level, evt, idx, msg) ==
    [level |-> level, event_number |-> evt, particle_index |-> idx, message |-> msg]

\* pdg.is_valid_pdg_id with the particle library present: 0 is the invalid id used here.
is_valid_pdg_id(pdg) == pdg # 0

\* One issue per particle that fails the test, in particle order, at its 0-based index.
ParticleIssues(ev, Bad(_), level, msg) ==
    LET n == Len(ev.particles)
        F[i \in 0..n] ==
            IF i = 0 THEN << >>
            ELSE IF Bad(ev.particles[i])
                 THEN Append(F[i - 1], ValidationIssue(level, ev.event_number, <<i - 1>>, msg))
                 ELSE F[i - 1]
    IN F[n]

NegativeEnergy(p) == p.energy < 0

EnergyIssuesOneBased(ev) ==
    LET n == Len(ev.particles)
        F[i \in 0..n] ==
            IF i = 0 THEN << >>
            ELSE IF NegativeEnergy(ev.particles[i])
                 THEN Append(F[i - 1], ValidationIssue("error", ev.event_number, <<i>>, "Negative energy"))
                 ELSE F[i - 1]
    IN F[n]

EnergyIssues(ev) == ParticleIssues(ev, NegativeEnergy, "error", "Negative energy")

SignedSquare(x) == x * Abs(x)

\* Particle.computed_mass, as its signed square: E^2 - |p|^2, clamped to 0 in (-1e-8, 0).
ComputedMassSquared(p) ==
    LET m2 == p.energy * p.energy - p.px * p.px - p.py * p.py - p.pz * p.pz
    IN IF m2 < 0 /\ -m2 < TicksPerTol * TicksPerTol THEN 0 ELSE m2

\* |computed - mass| / |mass| > 1e-2, for |mass| >= 1e-3, compared through the squares.
MassInconsistent(p) ==
    /\ p.mass # 0
    /\ Abs(p.mass) >= 10 * TicksPerTol
    /\ \/ 10000 * ComputedMassSquared(p) > SignedSquare(100 * p.mass + Abs(p.mass))
       \/ 10000 * ComputedMassSquared(p) < SignedSquare(100 * p.mass - Abs(p.mass))

FourSum(ps) ==
    <<SumSeq([i \in 1..Len(ps) |-> ps[i].px]), SumSeq([i \in 1..Len(ps) |-> ps[i].py]),
      SumSeq([i \in 1..Len(ps) |-> ps[i].pz]), SumSeq([i \in 1..Len(ps) |-> ps[i].energy])>>

Incoming(ev) == SelectSeq(ev.particles, LAMBDA p : p.status = -1)
Outgoing(ev) == SelectSeq(ev.particles, LAMBDA p : p.status = 1)

\* The momentum check without the test that both lists are non-empty.
MomentumIssuesUnguarded(ev) ==
    LET sin == FourSum(Incoming(ev))
        sout == FourSum(Outgoing(ev))
        total == Max2(Abs(sin[4]), Abs(sout[4]))
        bad(j) == IF total = 0 THEN sin[j] # sout[j]
                  ELSE Abs(sin[j] - sout[j]) * ToleranceDenominator > total
        labels == <<"px", "py", "pz", "E">>
        F[j \in 0..4] ==
           IF j = 0 THEN << >>
           ELSE IF bad(j)
                THEN Append(F[j - 1], ValidationIssue("error", ev.event_number, << >>, labels[j]))
                ELSE F[j - 1]
    IN F[4]

\* diff / max(|E_in|, |E_out|, 1e-10) > momentum_tolerance, for px, py, pz, E in turn.
MomentumIssues(ev) ==
    IF Incoming(ev) = << >> \/ Outgoing(ev) = << >> THEN << >>
    ELSE LET sin == FourSum(Incoming(ev))
             sout == FourSum(Outgoing(ev))
             total == Max2(Abs(sin[4]), Abs(sout[4]))
             bad(j) == IF total = 0 THEN sin[j] # sout[j]
                       ELSE Abs(sin[j] - sout[j]) * ToleranceDenominator > total
             labels == <<"px", "py", "pz", "E">>
             F[j \in 0..4] ==
                IF j = 0 THEN << >>
                ELSE IF bad(j)
                     THEN Append(F[j - 1], ValidationIssue("error", ev.event_number, << >>, labels[j]))
                     ELSE F[j - 1]
         IN F[4]

validate_event(ev) ==
    IF ev.particles = << >>
    THEN <<ValidationIssue("warning", ev.event_number, << >>, "Event has no particles")>>
    ELSE ParticleIssues(ev, LAMBDA p : ~is_valid_pdg_id(p.pdg_id), "warning", "Unknown/invalid PDG ID")
         \o EnergyIssues(ev)
         \o ParticleIssues(ev, MassInconsistent, "warning", "Mass inconsistency")
         \o MomentumIssues(ev)

\* validate: the issues of all events, in order.
validate(events) == ConcatMap(validate_event, events)

n_errors(issues) == Cardinality({i \in 1..Len(issues) : issues[i].level = "error"})

is_valid(issues) == n_errors(issues) = 0


(***************************************************************************)
(* Input files.  Momenta in ticks: 40 ticks = 0.001 GeV.                   *)
(***************************************************************************)
SeqsUpTo(S, n) == UNION {[1..k -> S] : k \in 0..n}

RECURSIVE Flatten(_)
Flatten(ss) == IF ss = << >> THEN << >> ELSE Head(ss) \o Flatten(Tail(ss))

LheRow(pdg, st, m1, m2, px, pz, e, m) ==
    Line("row", <<pdg, st, m1, m2, 0, 0, px, 0, pz, e, m, 0, 9>>, << >>)

\* <event> blocks: a 2 -> 1 process; the same with a status 3 documentation line;
\* a single final-state particle; an event that violates energy conservation.
LheBlockSeq ==
    <<<<Line("<event>", << >>, << >>), Line("row", <<3, 1, One, 0, 0, 0>>, << >>),
       LheRow(21, -1, 0, 0, 0, 40, 40, 0), LheRow(21, -1, 0, 0, 0, -40, 40, 0),
       LheRow(25, 1, 1, 2, 0, 0, 80, 80), Line("</event>", << >>, << >>)>>,
     <<Line("<event>", << >>, << >>), Line("row", <<4, 1, One, 0, 0, 0>>, << >>),
       LheRow(21, -1, 0, 0, 0, 40, 40, 0), LheRow(21, -1, 0, 0, 0, -40, 40, 0),
       LheRow(23, 3, 1, 2, 0, 0, 80, 80),
       LheRow(25, 1, 3, 3, 0, 0, 80, 80), Line("</event>", << >>, << >>)>>,
     <<Line("<event>", << >>, << >>), Line("row", <<1, 2, 2 * One>>, << >>),
       LheRow(11, 1, 0, 0, 40, 0, 40, 0), Line("</event>", << >>, << >>)>>,
     <<Line("<event>", << >>, << >>), Line("row", <<2, 1, One, 0, 0, 0>>, << >>),
       LheRow(21, -1, 0, 0, 0, 40, 40, 0),
       LheRow(25, 1, 1, 1, 0, 0, 80, 80), Line("</event>", << >>, << >>)>> >>

LheFile(bs) ==
    TextFile("lhe",
        <<Line("<LesHouchesEvents>", << >>, << >>), Line("<init>", << >>, << >>),
          Line("row", <<2212, 2212, 6500 * One, 6500 * One, 0, 0, 0, 0, 0, 0>>, << >>),
          Line("</init>", << >>, << >>)>>
        \o Flatten(bs) \o <<Line("</LesHouchesEvents>", << >>, << >>)>>)

LheFiles == {LheFile(bs) : bs \in SeqsUpTo(Range(LheBlockSeq), MaxEvents)}

\* Event blocks: particles with a vertex and two weights; a P record without
\* vertex columns and no V record; an event without particles that repeats event
\* number 1; a raw status 3 particle with an attribute record; a particle with
\* the raw status -1 that no generator convention maps.
HepMC3BlockSeq ==
    <<<<Line("E", <<1, 1, 3>>, << >>), Line("W", <<One, 2 * One>>, << >>),
       Line("V", <<-1, 0, 0, 0, 0, 2, 1, 1, 2, 3>>, << >>),
       Line("P", <<1, 21, 4, 0, 0, 40, 40, 0, 0, -1>>, << >>),
       Line("P", <<2, 21, 4, 0, 0, -40, 40, 0, 0, -1>>, << >>),
       Line("P", <<3, 25, 1, 0, 0, 0, 80, 80, -1, 0>>, << >>)>>,
     <<Line("E", <<2, 0, 1>>, << >>), Line("P", <<1, 11, 1, 40, 0, 0, 40, 0>>, << >>)>>,
     <<Line("E", <<1, 0, 0>>, << >>)>>,
     <<Line("E", <<3, 1, 1>>, << >>), Line("V", <<-1, 0, 0, 0, 0, 0, 1, 1>>, << >>),
       Line("P", <<1, 23, 3, 0, 0, 0, 80, 80, -1, 0>>, << >>),
       Line("A", <<1>>, <<"flow1", "501">>)>>,
     <<Line("E", <<4, 0, 1>>, << >>), Line("P", <<1, 22, -1, 0, 0, 40, 40, 0>>, << >>)>> >>

\* Headers: no U and no N record; a U record with one token; full U and N records.
HepMC3HeaderSeq ==
    <<<< >>,
      <<Line("U", << >>, <<"GEV">>), Line("N", <<2>>, <<"w0", "w1">>)>>,
      <<Line("U", << >>, <<"MEV", "CM">>), Line("N", <<2>>, <<"w0", "w1">>)>> >>

HepMC3File(h, bs) ==
    TextFile("hepmc3",
        <<Line("HepMC::", << >>, <<"Version", "3.0.0">>), Line("HepMC::", << >>, <<"Asciiv3">>)>>
        \o h \o Flatten(bs))

HepMC3Files ==
    {HepMC3File(h, bs) :
     h \in Range(HepMC3HeaderSeq), bs \in SeqsUpTo(Range(HepMC3BlockSeq), MaxEvents)}

\* Particles of the events handed to validate_event.
ValidationParticles ==
    {Particle(21, -1, 0, 0, 40, 40, 0), Particle(21, -1, 0, 0, -40, 40, 0),
     Particle(25, 1, 0, 0, 0, 80, 80), Particle(25, 1, 4, 0, 0, 80, 80),
     Particle(22, 1, 0, 0, 0, 0, 0), Particle(11, 1, 0, 0, 0, -40, 0),
     Particle(0, 2, 0, 0, 0, 80, 40)}


(***************************************************************************)
(* Idle values of the variables a specification does not use.              *)
(***************************************************************************)
IdleFormats == files = << >>

IdleValidate == vevent = Event(0) /\ vissues = << >> /\ vstage = "idle" /\ vflip = -1

IdleFilter ==
    /\ fexpr = [kind |-> "", op |-> "", id |-> << >>, value |-> 0, args |-> << >>]
    /\ fstage = "idle" /\ fevent = Event(0) /\ fresult = [raised |-> FALSE, value |-> FALSE]

IdleConvert == cv = << >>

IdleFingerprint == fp = << >>

IdleRegistry == reg = << >>

IdleRead == rd = << >>

IdleVertices == vtx = << >>

IdleStream == stream = << >>

IdleMeta == pmeta = << >>

IdleLhe == lread = << >>

IdleNew == IdleVertices /\ IdleStream /\ IdleMeta /\ IdleLhe

IdleOthers == IdleFingerprint /\ IdleRegistry /\ IdleRead /\ IdleNew

(***************************************************************************)
(* SpecFormats: an input file and the files converted from it, each from   *)
(* the one before (hepconduit.convert without filter or validation).       *)
(***************************************************************************)
InitFormats ==
    /\ files \in {<<f>> : f \in LheFiles \cup HepMC3Files}
    /\ IdleValidate /\ IdleFilter /\ IdleConvert /\ IdleOthers

ConvertText(fmt) ==
    /\ Len(files) <= MaxChain
    /\ files' = Append(files, ConvertFile(files[Len(files)], fmt, FALSE))
    /\ UNCHANGED <<vevent, vissues, vstage, vflip, fexpr, fstage, fevent, fresult, cv, fp, reg, rd, vtx, stream, pmeta, lread>>

ConvertParquet(columnar) ==
    /\ Len(files) <= MaxChain
    /\ files' = Append(files, ConvertFile(files[Len(files)], "parquet", columnar))
    /\ UNCHANGED <<vevent, vissues, vstage, vflip, fexpr, fstage, fevent, fresult, cv, fp, reg, rd, vtx, stream, pmeta, lread>>

NextFormats ==
    \/ \E fmt \in {"lhe", "hepmc3"} : ConvertText(fmt)
    \/ \E columnar \in BOOLEAN : ConvertParquet(columnar)

SpecFormats == InitFormats /\ [][NextFormats]_vars

(***************************************************************************)
(* SpecValidate: an event is validated, one final-state particle's energy  *)
(* is made negative, and the event is validated again.                     *)
(***************************************************************************)
MaxParticles == 3

InitValidate ==
    /\ vevent \in {[Event(1) EXCEPT !.particles = ps, !.n_particles = Len(ps)] :
                     ps \in SeqsUpTo(ValidationParticles, MaxParticles)}
    /\ vissues = << >> /\ vstage = "fresh" /\ vflip = -1
    /\ IdleFormats /\ IdleFilter /\ IdleConvert /\ IdleOthers

RunValidate ==
    /\ vstage \in {"fresh", "flipped"}
    /\ vissues' = validate_event(vevent)
    /\ vstage' = IF vstage = "fresh" THEN "checked" ELSE "rechecked"
    /\ UNCHANGED <<vevent, vflip, files, fexpr, fstage, fevent, fresult, cv, fp, reg, rd, vtx, stream, pmeta, lread>>

MakeEnergyNegative(i) ==
    /\ vstage = "checked"
    /\ i + 1 \in 1..Len(vevent.particles)
    /\ vevent.particles[i + 1].status = 1
    /\ vevent.particles[i + 1].energy >= 0
    /\ vevent' = [vevent EXCEPT !.particles[i + 1].energy =
                     IF @ > 0 THEN -@ ELSE -TicksPerTol]
    /\ vflip' = i
    /\ vstage' = "flipped"
    /\ UNCHANGED <<vissues, files, fexpr, fstage, fevent, fresult, cv, fp, reg, rd, vtx, stream, pmeta, lread>>

NextValidate ==
    \/ RunValidate
    \/ \E i \in 0..MaxParticles : MakeEnergyNegative(i)

SpecValidate == InitValidate /\ [][NextValidate]_vars


(***************************************************************************)
(* Properties of the format conversions (SpecFormats).                     *)
(***************************************************************************)
SameMultiset(a, b) ==
    /\ Len(a) = Len(b)
    /\ \A x \in Range(a) \cup Range(b) :
          Cardinality({i \in 1..Len(a) : a[i] = x}) = Cardinality({i \in 1..Len(b) : b[i] = x})

EventsOf(k) == ReadFile(files[k]).events

\* C2: for every LHE file that validates, LHE -> HepMC3 -> LHE keeps the number of
\* events and the multiset of default fingerprints, whatever the status codes.
LheRoundTripPreservesFingerprints ==
    \A k \in 1..Len(files) - 2 :
        (/\ files[k].format = "lhe" /\ files[k + 1].format = "hepmc3"
         /\ files[k + 2].format = "lhe"
         /\ is_valid(validate(EventsOf(k))))
        => /\ Len(EventsOf(k + 2)) = Len(EventsOf(k))
           /\ SameMultiset(fingerprints(EventsOf(k), DefaultConfig),
                           fingerprints(EventsOf(k + 2), DefaultConfig))

\* C3: HepMC3 -> HepMC3 keeps every event's fingerprint taken with include_graph and
\* include_weights, also for events with P records and no V record.
HepMC3RoundTripPreservesGraph ==
    \A k \in 1..Len(files) - 1 :
        (files[k].format = "hepmc3" /\ files[k + 1].format = "hepmc3")
        => fingerprints(EventsOf(k + 1), StrictConfig) = fingerprints(EventsOf(k), StrictConfig)

\* C4: HepMC3 -> HepMC3 keeps weight_names and units as read, also when the input
\* has no U record or a U record with fewer than two tokens.
HepMC3RoundTripPreservesRunInfo ==
    \A k \in 1..Len(files) - 1 :
        (files[k].format = "hepmc3" /\ files[k + 1].format = "hepmc3")
        => /\ ReadFile(files[k + 1]).run_info.weight_names = ReadFile(files[k]).run_info.weight_names
           /\ ReadFile(files[k + 1]).run_info.units = ReadFile(files[k]).run_info.units

\* C5: the events read back from columnar Parquet have, event by event, the
\* include_graph / include_weights fingerprint the input events had when read.
ColumnarParquetPreservesStrictFingerprint ==
    \A k \in 1..Len(files) - 1 :
        (files[k + 1].format = "parquet" /\ files[k + 1].table.layout = "columnar")
        => fingerprints(EventsOf(k + 1), StrictConfig) = fingerprints(EventsOf(k), StrictConfig)

\* C6: flat Parquet written from a list of events reads back as the same number of
\* events, in the same order, with the same default fingerprints.
FlatParquetPreservesEvents ==
    \A k \in 1..Len(files) - 1 :
        (files[k + 1].format = "parquet" /\ files[k + 1].table.layout = "flat")
        => /\ Len(EventsOf(k + 1)) = Len(EventsOf(k))
           /\ fingerprints(EventsOf(k + 1), DefaultConfig) = fingerprints(EventsOf(k), DefaultConfig)

(***************************************************************************)
(* Properties of the validator (SpecValidate).                             *)
(***************************************************************************)
Balanced(ev) == FourSum(Incoming(ev)) = FourSum(Outgoing(ev))

NonNegativeEnergies(ev) == \A i \in 1..Len(ev.particles) : ev.particles[i].energy >= 0

\* C10: an event with balanced four-momentum and non-negative energies validates
\* with no error-level issue (is_valid is n_errors = 0); after the energy of the
\* final-state particle at index i is made negative, validation reports an
\* error-level issue whose particle_index is i.
ValidationFindsNegativeEnergy ==
    /\ (vstage = "checked" /\ Balanced(vevent) /\ NonNegativeEnergies(vevent))
          => is_valid(vissues) /\ n_errors(vissues) = 0
    /\ vstage = "rechecked"
          => \E k \in 1..Len(vissues) :
                vissues[k].level = "error" /\ vissues[k].particle_index = <<vflip>>

\* Reached: a 2 -> 1 event that was balanced, validated again after the energy of
\* its final-state particle at index 2 was made negative.
ValidationFindsNegativeEnergyWitness ==
    /\ vstage = "rechecked" /\ vflip = 2
    /\ Len(Incoming(vevent)) = 2
    /\ Balanced([vevent EXCEPT !.particles[3].energy = -@])
    /\ \E k \in 1..Len(vissues) : vissues[k].particle_index = <<2>>


(***************************************************************************)
(* Filter expressions (filtering.py).  An expression is its syntax tree;   *)
(* an identifier is the sequence of its pieces, each underscore a piece of *)
(* its own.  Numbers are in ticks, counts and literals n being n * One.    *)
(***************************************************************************)
Node(kind, op, id, value, args) ==
    [kind |-> kind, op |-> op, id |-> id, value |-> value, args |-> args]

Name(id) == Node("Name", "", id, 0, << >>)
Num(v) == Node("Constant", "num", << >>, v, << >>)
Str(text) == Node("Constant", "str", <<text>>, 0, << >>)

ALLOWED_FUNCS ==
    {<<"abs">>, <<"min">>, <<"max">>, <<"round">>, <<"sqrt">>, <<"log">>, <<"exp">>}

\* ALLOWED_NODES: the expression classes, and the operator classes of each.
AllowedKinds == {"BoolOp", "BinOp", "UnaryOp", "Compare", "Call", "Name", "Constant"}

AllowedOps ==
    {"", "num", "str", "And", "Or", "Not", "Add", "Sub", "Mult", "Div", "FloorDiv", "Mod",
     "Pow", "USub", "UAdd", "Eq", "NotEq", "Lt", "LtE", "Gt", "GtE"}

StartsWith(id, prefix) == Len(id) >= Len(prefix) /\ SubSeq(id, 1, Len(prefix)) = prefix

\* _validate_ast: every node of ast.walk(tree) passes the three tests.
RECURSIVE _validate_ast(_)
_validate_ast(e) ==
    /\ e.kind \in AllowedKinds /\ e.op \in AllowedOps
    /\ e.kind = "Name" => ~StartsWith(e.id, <<"_", "_">>)
    /\ e.kind = "Call" => e.args[1].kind = "Name" /\ e.args[1].id \in ALLOWED_FUNCS
    /\ \A i \in 1..Len(e.args) : _validate_ast(e.args[i])

\* compile_filter: a source that ast.parse refuses, or a tree _validate_ast refuses,
\* raises UnsafeFilterExpression.
compile_filter(e) == e.kind # "SyntaxError" /\ _validate_ast(e)

ISqrt(n) == CHOOSE r \in 0..n : r * r <= n /\ n < (r + 1) * (r + 1)

Pt(p) == ISqrt(p.px * p.px + p.py * p.py)

Count(ps, Test(_)) == Cardinality({i \in 1..Len(ps) : Test(ps[i])})

IsJet(p) == Abs(p.pdg_id) \in 1..6 \cup {21}
IsLepton(p) == Abs(p.pdg_id) \in {11, 13, 15}
IsNeutrino(p) == Abs(p.pdg_id) \in {12, 14, 16}

\* _compute_filter_variables: the environment of the 14 names.
_compute_filter_variables(ev) ==
    LET final == Outgoing(ev)
        nu == SelectSeq(final, IsNeutrino)
        seen == SelectSeq(final, LAMBDA p : ~IsNeutrino(p))
        metx == SumSeq([i \in 1..Len(nu) |-> nu[i].px])
        mety == SumSeq([i \in 1..Len(nu) |-> nu[i].py])
    IN (<<"n", "_", "particles">> :> Len(ev.particles) * One)
       @@ (<<"n", "_", "final">> :> Len(final) * One)
       @@ (<<"n", "_", "incoming">> :> Len(Incoming(ev)) * One)
       @@ (<<"weight">> :> IF ev.weights # << >> THEN ev.weights[1] ELSE One)
       @@ (<<"process", "_", "id">> :> ev.process_id * One)
       @@ (<<"scale">> :> ev.scale)
       @@ (<<"alpha", "_", "qed">> :> ev.alpha_qed)
       @@ (<<"alpha", "_", "qcd">> :> ev.alpha_qcd)
       @@ (<<"n", "_", "jets">> :> Count(final, IsJet) * One)
       @@ (<<"n", "_", "leptons">> :> Count(final, IsLepton) * One)
       @@ (<<"n", "_", "photons">> :> Count(final, LAMBDA p : Abs(p.pdg_id) = 22) * One)
       @@ (<<"n", "_", "neutrinos">> :> Len(nu) * One)
       @@ (<<"ht">> :> SumSeq([i \in 1..Len(seen) |-> Pt(seen[i])]))
       @@ (<<"met">> :> ISqrt(metx * metx + mety * mety))

Val(t, v) == [t |-> t, v |-> v]
Raised == Val("raised", 0)
Truthy(x) == x.t = "func" \/ x.v # 0

\* eval with the restricted globals {"__builtins__": {}} + ALLOWED_FUNCS and the
\* environment as locals; an exception of the evaluation is the value Raised.
RECURSIVE Eval(_, _)
Eval(e, env) ==
    LET a == Eval(e.args[1], env)
        b == Eval(e.args[2], env)
        nums == a.t = "num" /\ b.t = "num"
    IN CASE e.kind = "Name" ->
              IF e.id \in DOMAIN env THEN Val("num", env[e.id])
              ELSE IF e.id \in ALLOWED_FUNCS THEN Val("func", 0) ELSE Raised
         [] e.kind = "Constant" ->
              IF e.op = "num" THEN Val("num", e.value * One) ELSE Val("str", 1)
         [] e.kind = "UnaryOp" ->
              IF a.t = "raised" THEN Raised
              ELSE IF e.op = "Not" THEN Val("num", IF Truthy(a) THEN 0 ELSE One)
              ELSE IF a.t # "num" THEN Raised
              ELSE Val("num", IF e.op = "USub" THEN -a.v ELSE a.v)
         [] e.kind = "BoolOp" ->
              IF a.t = "raised" THEN Raised
              ELSE IF e.op = "And" THEN (IF Truthy(a) THEN b ELSE a)
              ELSE (IF Truthy(a) THEN a ELSE b)
         [] e.kind = "BinOp" ->
              IF ~nums THEN Raised
              ELSE Val("num", IF e.op = "Add" THEN a.v + b.v ELSE a.v - b.v)
         [] e.kind = "Compare" ->
              IF a.t = "raised" \/ b.t = "raised" THEN Raised
              ELSE IF e.op = "Eq" THEN Val("num", IF a = b THEN One ELSE 0)
              ELSE IF ~nums THEN Raised
              ELSE Val("num", IF (e.op = "GtE" /\ a.v >= b.v) \/ (e.op = "Gt" /\ a.v > b.v)
                              THEN One ELSE 0)
         [] e.kind = "Call" ->
              IF Len(e.args) = 2 /\ e.args[1].id = <<"abs">> /\ b.t = "num"
              THEN Val("num", Abs(b.v))
              ELSE LET c == Eval(e.args[3], env)
                   IN IF Len(e.args) = 3 /\ b.t = "num" /\ c.t = "num"
                         /\ e.args[1].id \in {<<"min">>, <<"max">>}
                      THEN Val("num", IF (b.v <= c.v) = (e.args[1].id = <<"min">>)
                                      THEN b.v ELSE c.v)
                      ELSE Raised

\* eval_filter: bool(eval(...)); [raised, value].
eval_filter(e, ev) ==
    LET x == Eval(e, _compute_filter_variables(ev))
    IN [raised |-> x.t = "raised", value |-> x.t # "raised" /\ Truthy(x)]


(***************************************************************************)
(* SpecFilter: compile_filter_fn on an expression, then the compiled       *)
(* filter called on an event.                                              *)
(***************************************************************************)
MaxConst == 1

FilterAtoms ==
    {Name(<<"n", "_", "leptons">>), Name(<<"ht">>), Name(<<"abs">>), Name(<<"os">>),
     Name(<<"_", "x">>), Name(<<"_", "_", "import", "_", "_">>)}
    \cup {Num(v) : v \in 0..MaxConst}

\* The atoms; one operator, call, subscript or attribute over atoms; the two
\* expressions of test_filtering_safe; an import statement; a conditional expression.
FilterExprs ==
    FilterAtoms
    \cup {Node(k[1], k[2], << >>, 0, <<a, b>>) :
            k \in {<<"Compare", "GtE">>, <<"BoolOp", "And">>, <<"BinOp", "Add">>,
                   <<"Subscript", "">>, <<"Call", "">>},
            a \in FilterAtoms, b \in FilterAtoms}
    \cup {Node(k[1], k[2], k[3], 0, <<a>>) :
            k \in {<<"UnaryOp", "Not", << >> >>, <<"Call", "", << >> >>,
                   <<"Attribute", "", <<"system">> >>},
            a \in FilterAtoms}
    \cup {Node("BoolOp", "And", << >>, 0,
               <<Node("Compare", "GtE", << >>, 0, <<Name(<<"n", "_", "leptons">>), Num(1)>>),
                 Node("Compare", "Gt", << >>, 0, <<Name(<<"ht">>), Num(0)>>)>>),
          Node("Call", "", << >>, 0,
               <<Node("Attribute", "", <<"system">>, 0,
                      <<Node("Call", "", << >>, 0,
                             <<Name(<<"_", "_", "import", "_", "_">>), Str("os")>>)>>),
                 Str("echo pwned")>>),
          Node("SyntaxError", "import", <<"os">>, 0, << >>),
          Node("IfExp", "", << >>, 0, <<Name(<<"ht">>), Num(1), Num(0)>>)}

FilterEvents ==
    {Event(1),
     [Event(2) EXCEPT !.particles = <<Particle(11, 1, 40, 0, 0, 40, 0)>>, !.n_particles = 1],
     [Event(3) EXCEPT !.particles = <<Particle(21, -1, 0, 0, 40, 40, 0),
                                      Particle(21, -1, 0, 0, -40, 40, 0),
                                      Particle(25, 1, 0, 0, 0, 80, 80)>>,
                      !.n_particles = 3]}

NoResult == [raised |-> FALSE, value |-> FALSE]

InitFilter ==
    /\ fexpr \in FilterExprs
    /\ fevent \in FilterEvents
    /\ fstage = "source" /\ fresult = NoResult
    /\ IdleFormats /\ IdleValidate /\ IdleConvert /\ IdleOthers

compile_filter_fn ==
    /\ fstage = "source"
    /\ fstage' = IF compile_filter(fexpr) THEN "compiled" ELSE "rejected"
    /\ UNCHANGED <<fexpr, fevent, fresult, files, vevent, vissues, vstage, vflip, cv, fp, reg, rd, vtx, stream, pmeta, lread>>

CallFilterFn ==
    /\ fstage = "compiled"
    /\ fresult' = eval_filter(fexpr, fevent)
    /\ fstage' = "evaluated"
    /\ UNCHANGED <<fexpr, fevent, files, vevent, vissues, vstage, vflip, cv, fp, reg, rd, vtx, stream, pmeta, lread>>

NextFilter == compile_filter_fn \/ CallFilterFn

SpecFilter == InitFilter /\ [][NextFilter]_vars

(***************************************************************************)
(* Properties of the filter compiler (SpecFilter).                         *)
(***************************************************************************)
RECURSIVE Nodes(_)
Nodes(e) == {e} \cup UNION {Nodes(e.args[i]) : i \in 1..Len(e.args)}

\* What the safe sub-language excludes: attribute access, indexing, an import, a
\* call of anything but an allowed function, an identifier that begins with "_".
Unsafe(e) ==
    \E n \in Nodes(e) :
        \/ n.kind \in {"Attribute", "Subscript"}
        \/ n.kind = "SyntaxError" /\ n.op = "import"
        \/ n.kind = "Call" /\ ~(n.args[1].kind = "Name" /\ n.args[1].id \in ALLOWED_FUNCS)
        \/ n.kind = "Name" /\ StartsWith(n.id, <<"_">>)

\* Built only from the allowed operators, the allowed functions and the names of
\* the filter environment.
AllowedOnly(e) ==
    \A n \in Nodes(e) :
        /\ n.kind \in AllowedKinds /\ n.op \in AllowedOps
        /\ n.kind = "Name" =>
              n.id \in ALLOWED_FUNCS \cup DOMAIN _compute_filter_variables(Event(0))
        /\ n.kind = "Call" => n.args[1].kind = "Name" /\ n.args[1].id \in ALLOWED_FUNCS

\* C9: compile_filter_fn rejects every expression with attribute access, indexing,
\* an import, a call outside the allowed functions or an identifier that begins
\* with one or two underscores; an expression of allowed operators, functions and
\* environment names compiles, and calling the filter leaves the event as it was.
FilterCompilerRejectsUnsafe ==
    /\ [](/\ Unsafe(fexpr) => fstage \in {"source", "rejected"}
          /\ AllowedOnly(fexpr) => fstage # "rejected")
    /\ [][fevent' = fevent]_vars


(***************************************************************************)
(* Loss accounting (audit.py) and provenance (provenance.py).  A Python    *)
(* dict that is filled at run time is the sequence of its <<key, value>>   *)
(* pairs in insertion order.                                               *)
(***************************************************************************)
_CAPABILITIES ==
    [lhe |-> [particle_fields |-> {"pdg_id", "status", "mother1", "mother2", "color1", "color2",
                                   "px", "py", "pz", "energy", "mass", "spin"},
              event_fields |-> {"event_number", "weights", "process_id", "scale",
                                "alpha_qed", "alpha_qcd"},
              run_fields |-> {"beam_pdg_id", "beam_energy", "weight_names", "processes",
                              "generator_name", "generator_version", "extra"}],
     hepmc3 |-> [particle_fields |-> {"pdg_id", "status", "px", "py", "pz", "energy", "mass",
                                      "barcode", "vertex_barcode", "end_vertex_barcode",
                                      "attributes"},
                 event_fields |-> {"event_number", "weights", "extra"},
                 run_fields |-> {"beam_pdg_id", "beam_energy", "weight_names",
                                 "generator_name", "generator_version", "extra"}],
     csv |-> [particle_fields |-> {"pdg_id", "status", "mother1", "mother2", "color1", "color2",
                                   "px", "py", "pz", "energy", "mass", "spin", "barcode",
                                   "vertex_barcode", "end_vertex_barcode"},
              event_fields |-> {"event_number"},
              run_fields |-> {}],
     tsv |-> [particle_fields |-> {"pdg_id", "status", "mother1", "mother2", "color1", "color2",
                                   "px", "py", "pz", "energy", "mass", "spin", "barcode",
                                   "vertex_barcode", "end_vertex_barcode"},
              event_fields |-> {"event_number"},
              run_fields |-> {}],
     parquet |-> [particle_fields |-> {"pdg_id", "status", "mother1", "mother2", "color1",
                                       "color2", "px", "py", "pz", "energy", "mass", "spin",
                                       "barcode", "vertex_barcode", "end_vertex_barcode",
                                       "attributes"},
                  event_fields |-> {"event_number", "weights", "process_id", "scale",
                                    "alpha_qed", "alpha_qcd", "extra"},
                  run_fields |-> {"beam_pdg_id", "beam_energy", "weight_names", "processes",
                                  "generator_name", "generator_version", "extra"}]]

\* sorted() of a set of field names: the names in code point order.
Sorted(S) ==
    SelectSeq(<<"alpha_qcd", "alpha_qed", "attributes", "barcode", "beam_energy", "beam_pdg_id",
                "color1", "color2", "end_vertex_barcode", "energy", "event_number", "extra",
                "generator_name", "generator_version", "mass", "mother1", "mother2", "pdg_id",
                "process_id", "processes", "px", "py", "pz", "scale", "spin", "status",
                "vertex_barcode", "weight_names", "weights">>,
              LAMBDA f : f \in S)

loss_plan(input_format, output_format) ==
    LET ic == _CAPABILITIES[input_format]
        oc == _CAPABILITIES[output_format]
    IN [input_format |-> input_format,
        output_format |-> output_format,
        dropped_particle_fields |-> Sorted(ic.particle_fields \ oc.particle_fields),
        dropped_event_fields |-> Sorted(ic.event_fields \ oc.event_fields),
        dropped_run_fields |-> Sorted(ic.run_fields \ oc.run_fields)]

LossCounter == [dropped_fields |-> << >>, dropped_weights |-> 0,
                dropped_runinfo_keys |-> << >>, loss_examples |-> << >>]

\* _non_default of the field of an event or a particle: a number is default when it
\* is 0 or 9.0, a list or a dict when it is empty.
_non_default(obj, f) ==
    CASE f = "attributes" -> obj.attributes # {}
      [] f = "extra" -> obj.extra.hepmc3 \/ obj.extra.validation_issues # << >>
      [] f = "weights" -> obj.weights # << >>
      [] f \in {"scale", "alpha_qed", "alpha_qcd"} -> obj[f] \notin {0, 9 * One}
      [] OTHER -> obj[f] \notin {0, 9}

HasKey(d, k) == \E i \in 1..Len(d) : d[i][1] = k

Get(d, k, default) == IF HasKey(d, k) THEN d[CHOOSE i \in 1..Len(d) : d[i][1] = k][2] ELSE default

Put(d, k, v) ==
    IF HasKey(d, k) THEN [i \in 1..Len(d) |-> IF d[i][1] = k THEN <<k, v>> ELSE d[i]]
    ELSE Append(d, <<k, v>>)

\* The counter of the key, and an example whatever the number already kept.
_record_exampleUncapped(c, key, ex) ==
    LET lst == Get(c.loss_examples, key, << >>)
    IN [c EXCEPT !.dropped_fields = Put(@, key, Get(@, key, 0) + 1),
                 !.loss_examples = Put(@, key, Append(lst, ex))]

\* One dropped field found non-default: the counter of its key, and an example
\* while the key has fewer than five.
_record_example(c, key, ex) ==
    LET lst == Get(c.loss_examples, key, << >>)
    IN [c EXCEPT !.dropped_fields = Put(@, key, Get(@, key, 0) + 1),
                 !.loss_examples = Put(@, key, IF Len(lst) < MaxExamples
                                               THEN Append(lst, ex) ELSE lst)]

RECURSIVE ObserveFields(_, _, _, _, _)
ObserveFields(c, obj, level, fields, ex) ==
    IF fields = << >> THEN c
    ELSE LET f == Head(fields)
             c1 == IF f # "weights" /\ _non_default(obj, f) THEN _record_example(c, <<level, f>>, ex)
                   ELSE c
         IN ObserveFields(c1, obj, level, Tail(fields), ex)

RECURSIVE ObserveParticles(_, _, _, _)
ObserveParticles(c, ev, ps, fields) ==
    IF ps = << >> THEN c
    ELSE ObserveParticles(
            ObserveFields(c, Head(ps), "particle", fields, <<ev.event_number, Head(ps).barcode>>),
            ev, Tail(ps), fields)

\* The body of _wrapped for one event; order_e and order_p are the orders in which
\* the sets dropped_event and dropped_particle are iterated.
ObserveEvent(c, ev, order_e, order_p) ==
    LET c1 == IF "weights" \in Range(order_e) /\ Len(ev.weights) > 1
              THEN [c EXCEPT !.dropped_weights = @ + 1] ELSE c
        c2 == ObserveFields(c1, ev, "event", order_e, <<ev.event_number>>)
    IN ObserveParticles(c2, ev, ev.particles, order_p)

SortKeysOff(d) == d

\* json.dumps(..., sort_keys=True) of a dict: the text depends on the keys and
\* their values, not on the insertion order.
SortKeys(d) == [k \in {d[i][1] : i \in 1..Len(d)} |-> Get(d, k, 0)]

\* loss_hash: SHA-256, taken to be collision free, of the stable JSON of the payload.
loss_hash(plan, c) ==
    [plan |-> plan,
     observed |-> [dropped_fields |-> SortKeys(c.dropped_fields),
                   dropped_weights |-> c.dropped_weights,
                   dropped_runinfo_keys |-> SortKeys(c.dropped_runinfo_keys),
                   loss_examples |-> SortKeys(c.loss_examples)]]

build_provenance(input_id, input_format, output_format, lhash, now) ==
    [tool |-> "hepconduit", tool_version |-> "version", git_sha |-> "head",
     utc_timestamp |-> now,
     input |-> [path |-> "input_path", sha256 |-> input_id, format |-> input_format],
     output |-> [path |-> "output_path", format |-> output_format],
     argv |-> <<"hepconduit", "convert", "input_path", "output_path">>,
     contract_id |-> "", loss_hash |-> lhash]


(***************************************************************************)
(* SpecConvert: one call of convert() step by step, and a second call with *)
(* the same arguments (convert.py).                                        *)
(***************************************************************************)
CvInputSeq ==
    <<LheFile(<<LheBlockSeq[1], LheBlockSeq[3]>>),
      HepMC3File(HepMC3HeaderSeq[3], <<HepMC3BlockSeq[1], HepMC3BlockSeq[2]>>),
      HepMC3File(HepMC3HeaderSeq[3], <<HepMC3BlockSeq[1], HepMC3BlockSeq[1]>>)>>

\* max_events: -1 (the default, no limit) or a limit of one event.
CvMaxEvents == {-1, 1}

\* itertools.islice(it, max_events), applied when max_events >= 0.
islice(events, max_events) ==
    IF max_events >= 0 /\ max_events < Len(events) THEN SubSeq(events, 1, max_events)
    ELSE events

CvOutputs == {"lhe", "hepmc3", "csv", "parquet"}

NoFilter == Node("None", "", << >>, 0, << >>)

\* No filter; "n_leptons >= 1 and ht > 0"; "__import__('os')"; "_x > 0".
CvFilters ==
    {NoFilter,
     Node("BoolOp", "And", << >>, 0,
          <<Node("Compare", "GtE", << >>, 0, <<Name(<<"n", "_", "leptons">>), Num(1)>>),
            Node("Compare", "Gt", << >>, 0, <<Name(<<"ht">>), Num(0)>>)>>),
     Node("Call", "", << >>, 0, <<Name(<<"_", "_", "import", "_", "_">>), Str("os")>>),
     Node("Compare", "Gt", << >>, 0, <<Name(<<"_", "x">>), Num(0)>>)}

NoDoc == [kind |-> "none"]

\* The locals of convert() on entry.
StartConvert(i, out, flt, mx, run, doc1) ==
    [pc |-> "start", run |-> run, input_id |-> i, input_format |-> CvInputSeq[i].format,
     output_format |-> out, filter_expr |-> flt, max_events |-> mx, compiled |-> FALSE,
     n_input |-> -1, n_output |-> 0, source |-> << >>, pulled |-> 0,
     run_info |-> RunInfo, plan |-> << >>, order_e |-> << >>, order_p |-> << >>,
     loss_counter |-> LossCounter, lhash |-> << >>, prov |-> << >>, weights_events |-> 0,
     held |-> 0,
     out |-> [opened |-> FALSE, events |-> << >>, closed |-> FALSE],
     raised |-> "", doc |-> NoDoc, doc1 |-> doc1]

InitConvert ==
    /\ cv \in {StartConvert(i, out, flt, mx, 1, NoDoc) :
                 i \in 1..Len(CvInputSeq), out \in CvOutputs, flt \in CvFilters,
                 mx \in CvMaxEvents}
    /\ IdleFormats /\ IdleValidate /\ IdleFilter /\ IdleOthers

Rest == <<files, vevent, vissues, vstage, vflip, fexpr, fstage, fevent, fresult, fp, reg, rd, vtx, stream, pmeta, lread>>

\* The events a stage holds at once when it takes n events one after the other
\* from a generator without storing them.
Streamed(n) == IF n > 0 THEN 1 ELSE 0

\* reader.read_run_info: LHEReader reads the <init> block only; HepMC3Reader has no
\* read_run_info of its own, and Reader.read_run_info calls read(), which builds
\* list(it) of all events of the file.
ReadRunInfoHolds(format, events) == IF format = "lhe" THEN 0 ELSE Len(events)

\* writer.write has taken n events: the LHE, HepMC3 and CSV writers write each
\* event as it comes, the Parquet writer appends the rows of every event to a list.
WriterHolds(format, n) == IF format = "parquet" THEN n ELSE Streamed(n)

\* The separate pass that counts the input events, one event at a time.
CountPass ==
    /\ cv.pc = "start"
    /\ cv' = [cv EXCEPT !.pc = "counted",
                        !.n_input = Len(islice(ReadFile(CvInputSeq[cv.input_id]).events,
                                               cv.max_events)),
                        !.held = Max2(@, Streamed(Len(islice(ReadFile(CvInputSeq[cv.input_id]).events,
                                                             cv.max_events))))]
    /\ UNCHANGED Rest

\* The lazy pipeline over a second iterator of the reader, and the run info.
BuildPipeline ==
    /\ cv.pc = "counted"
    /\ cv' = [cv EXCEPT !.pc = "piped",
                        !.source = islice(ReadFile(CvInputSeq[cv.input_id]).events,
                                          cv.max_events),
                        !.run_info = ReadFile(CvInputSeq[cv.input_id]).run_info,
                        !.held = Max2(@, ReadRunInfoHolds(cv.input_format,
                                             ReadFile(CvInputSeq[cv.input_id]).events))]
    /\ UNCHANGED Rest

Perms(S) == {s \in [1..Cardinality(S) -> S] : Range(s) = S}

\* The fields of a dropped set that some event or particle of the stream holds
\* non-default; where the others stand in the iteration order has no effect.
Relevant(fields, objs) ==
    {f \in Range(fields) : f = "weights" \/ \E i \in 1..Len(objs) : _non_default(objs[i], f)}

AllParticles(events) == Flatten([i \in 1..Len(events) |-> events[i].particles])

\* loss_plan and observe_losses; the two sets of the observer are iterated in an
\* order that the hash seed of the interpreter fixes.
PlanLosses ==
    /\ cv.pc = "piped"
    /\ LET plan == loss_plan(cv.input_format, cv.output_format)
       IN \E order_e \in Perms(Relevant(plan.dropped_event_fields, cv.source)),
             order_p \in Perms(Relevant(plan.dropped_particle_fields, AllParticles(cv.source))) :
             cv' = [cv EXCEPT !.pc = "planned", !.plan = plan, !.loss_counter = LossCounter,
                              !.order_e = order_e, !.order_p = order_p]
    /\ UNCHANGED Rest

\* loss_hash, build_provenance and the audit_report dict: the hash and the
\* dropped_weights_events entry are values taken now, dropped_fields and
\* loss_examples are the counter's own dicts.
ComputeAudit(now) ==
    /\ cv.pc = "planned"
    /\ LET lhash == loss_hash(cv.plan, cv.loss_counter)
       IN cv' = [cv EXCEPT !.pc = "audited", !.lhash = lhash,
                           !.weights_events = cv.loss_counter.dropped_weights,
                           !.prov = build_provenance(cv.input_id, cv.input_format,
                                                     cv.output_format, lhash, now)]
    /\ UNCHANGED Rest

\* writer.write begins: the LHE, HepMC3 and CSV writers open the output file for
\* writing and write their header, the Parquet writer collects rows first.
WriterOpen ==
    /\ cv.pc = "audited"
    /\ cv' = [cv EXCEPT !.pc = "writing", !.out.opened = cv.output_format # "parquet"]
    /\ UNCHANGED Rest

\* One next() on the pipeline: the filter generator compiles the expression when it
\* is first resumed, then takes reader events until one passes.
RECURSIVE Scan(_, _, _)
Scan(flt, source, n) ==
    IF source = << >> THEN [kind |-> "stop", ev |-> Event(0), rest |-> << >>, n |-> n]
    ELSE LET r == IF flt = NoFilter THEN [raised |-> FALSE, value |-> TRUE]
                  ELSE eval_filter(flt, Head(source))
         IN IF r.raised
            THEN [kind |-> "NameError", ev |-> Event(0), rest |-> Tail(source), n |-> n + 1]
            ELSE IF r.value
            THEN [kind |-> "event", ev |-> Head(source), rest |-> Tail(source), n |-> n + 1]
            ELSE Scan(flt, Tail(source), n + 1)

NextOut ==
    IF cv.filter_expr # NoFilter /\ ~cv.compiled /\ ~compile_filter(cv.filter_expr)
    THEN [kind |-> "UnsafeFilterExpression", ev |-> Event(0), rest |-> cv.source, n |-> 0]
    ELSE Scan(cv.filter_expr, cv.source, 0)

\* The writer takes the next event: it passed the filter, the observer counted its
\* losses, _counting counted it, the writer stored it.
PullEvent ==
    /\ cv.pc = "writing" /\ NextOut.kind = "event"
    /\ cv' = [cv EXCEPT !.compiled = TRUE, !.source = NextOut.rest,
                        !.pulled = @ + NextOut.n, !.n_output = @ + 1,
                        !.loss_counter = ObserveEvent(@, NextOut.ev, cv.order_e, cv.order_p),
                        !.out.events = Append(@, NextOut.ev),
                        !.held = Max2(@, WriterHolds(cv.output_format, Len(cv.out.events) + 1))]
    /\ UNCHANGED Rest

\* The stream ends: the writer closes its file (Parquet: writes the table).
WriterFinish ==
    /\ cv.pc = "writing" /\ NextOut.kind = "stop"
    /\ cv' = [cv EXCEPT !.pc = "written", !.compiled = TRUE, !.source = << >>,
                        !.pulled = @ + NextOut.n,
                        !.out.opened = TRUE, !.out.closed = TRUE]
    /\ UNCHANGED Rest

\* The pipeline raises inside writer.write: convert() ends with the exception.
PullRaises ==
    /\ cv.pc = "writing" /\ NextOut.kind \notin {"event", "stop"}
    /\ cv' = [cv EXCEPT !.pc = "failed", !.raised = NextOut.kind, !.source = NextOut.rest,
                        !.pulled = @ + NextOut.n, !.out.closed = cv.out.opened]
    /\ UNCHANGED Rest

\* stable_json_dumps(audit_report), as it is written to the report file.
Document ==
    [kind |-> "hepconduit.conversion_report.v1",
     loss_plan |-> cv.plan,
     observed |-> [dropped_fields |-> SortKeys(cv.loss_counter.dropped_fields),
                   dropped_weights_events |-> cv.weights_events,
                   dropped_runinfo_keys |-> SortKeys(cv.loss_counter.dropped_runinfo_keys),
                   loss_examples |-> SortKeys(cv.loss_counter.loss_examples)],
     loss_hash |-> cv.lhash,
     provenance |-> cv.prov]

EmitReport ==
    /\ cv.pc = "written"
    /\ cv' = [cv EXCEPT !.pc = "done", !.doc = Document]
    /\ UNCHANGED Rest

\* convert() is called again with the same arguments on the same input.
Rerun ==
    /\ cv.pc \in {"done", "failed"} /\ cv.run = 1
    /\ cv' = StartConvert(cv.input_id, cv.output_format, cv.filter_expr, cv.max_events, 2, cv.doc)
    /\ UNCHANGED Rest

NextConvert ==
    \/ CountPass
    \/ BuildPipeline
    \/ PlanLosses
    \/ \E now \in 1..MaxTime : ComputeAudit(now)
    \/ WriterOpen
    \/ PullEvent
    \/ WriterFinish
    \/ PullRaises
    \/ EmitReport
    \/ Rerun

SpecConvert == InitConvert /\ [][NextConvert]_vars


(***************************************************************************)
(* Properties of convert() (SpecConvert).                                  *)
(***************************************************************************)
\* C1: the loss_hash of the emitted report, and the one inside its provenance, is
\* the hash of {plan, observed} with the losses observed over all events of the
\* conversion.
LossHashCoversObservedLosses ==
    cv.pc = "done" =>
        /\ cv.doc.loss_hash = loss_hash(cv.plan, cv.loss_counter)
        /\ cv.doc.provenance.loss_hash = loss_hash(cv.plan, cv.loss_counter)

WithoutTimestamp(doc) == [doc EXCEPT !.provenance.utc_timestamp = 0]

\* C7: a second run of convert with the same input and arguments emits a report
\* document that differs from the first at most in provenance.utc_timestamp, and
\* the same loss_hash.
RerunEmitsSameReport ==
    (cv.run = 2 /\ cv.pc = "done") =>
        /\ cv.doc1 # NoDoc
        /\ WithoutTimestamp(cv.doc) = WithoutTimestamp(cv.doc1)
        /\ cv.doc.loss_hash = cv.doc1.loss_hash

\* Reached: a second run at another time that counted the dropped particle fields
\* of an LHE input in the order mother2, mother1, and emitted its report.
RerunEmitsSameReportWitness ==
    /\ cv.run = 2 /\ cv.pc = "done"
    /\ cv.doc.provenance.utc_timestamp # cv.doc1.provenance.utc_timestamp
    /\ Len(cv.loss_counter.dropped_fields) >= 3
    /\ \E i \in 1..Len(cv.loss_counter.dropped_fields) - 1 :
          /\ cv.loss_counter.dropped_fields[i][1] = <<"particle", "mother2">>
          /\ cv.loss_counter.dropped_fields[i + 1][1] = <<"particle", "mother1">>

\* C8: when the filter expression is outside the safe sub-language,
\* UnsafeFilterExpression is raised before any event of the main stream is pulled
\* from the reader and before the writer has opened, truncated or written the
\* output file.
UnsafeFilterRaisedBeforePipeline ==
    cv.raised = "UnsafeFilterExpression" =>
        cv.pulled = 0 /\ ~cv.out.opened /\ cv.out.events = << >>

(***************************************************************************)
(* SpecFingerprint: an event drawn from a bounded set is changed once: one *)
(* momentum component of a surviving particle is perturbed by less than    *)
(* abs_tol/2, the particles are reordered, or a status 3 particle is added *)
(* or removed; fp keeps the event before and after the change.             *)
(***************************************************************************)
Components == {"px", "py", "pz", "energy"}

\* Perturbations d with 0 < |d| < abs_tol/2, in ticks.
Perturbations == {d \in (0 - TicksPerTol)..TicksPerTol : d # 0 /\ 2 * Abs(d) < TicksPerTol}

Configs ==
    [include_intermediate : BOOLEAN, include_incoming : BOOLEAN, include_weights : BOOLEAN,
     include_graph : BOOLEAN, include_process_id : BOOLEAN]

\* Particles of the pool: components at a bucket centre (0, 4), inside a bucket (1, 5)
\* and next to a bucket boundary (2, 3).
FpParticles ==
    {[Particle(21, -1, 0, 0, 4, 4, 0) EXCEPT !.barcode = 1],
     [Particle(11, 1, 2, 0, 0, 3, 0) EXCEPT !.barcode = 2, !.vertex_barcode = -1],
     [Particle(11, 1, 1, 0, 0, 5, 0) EXCEPT !.barcode = 3, !.vertex_barcode = -1],
     [Particle(23, 2, 0, 3, 0, 5, 0) EXCEPT !.barcode = 4, !.end_vertex_barcode = -1],
     [Particle(23, 3, 1, 0, 0, 2, 0) EXCEPT !.barcode = 5]}

FpEvents ==
    {[Event(1) EXCEPT !.particles = ps, !.weights = ws, !.process_id = 7] :
        ps \in SeqsUpTo(FpParticles, MaxParticles), ws \in {<<One>>, <<One + 2, One + 7>>}}

Component(p, k) ==
    IF k = "px" THEN p.px ELSE IF k = "py" THEN p.py ELSE IF k = "pz" THEN p.pz ELSE p.energy

SetComponent(p, k, x) ==
    IF k = "px" THEN [p EXCEPT !.px = x]
    ELSE IF k = "py" THEN [p EXCEPT !.py = x]
    ELSE IF k = "pz" THEN [p EXCEPT !.pz = x]
    ELSE [p EXCEPT !.energy = x]

\* fingerprint_event's loop keeps p: neither status 3 nor excluded by cfg.
Survives(p, cfg) ==
    /\ p.status # 3
    /\ ~(p.status = -1 /\ ~cfg.include_incoming)
    /\ ~(p.status = 2 /\ ~cfg.include_intermediate)

Permute(ps, perm) == [i \in 1..Len(ps) |-> ps[perm[i]]]

InsertAt(ps, i, p) == SubSeq(ps, 1, i - 1) \o <<p>> \o SubSeq(ps, i, Len(ps))

RemoveAt(ps, i) == SubSeq(ps, 1, i - 1) \o SubSeq(ps, i + 1, Len(ps))

NoChange == [op |-> "none", index |-> 0, component |-> "", d |-> 0]

InitFingerprint ==
    /\ fp \in {[ev |-> e, base |-> e, change |-> NoChange] : e \in FpEvents}
    /\ IdleFormats /\ IdleValidate /\ IdleFilter /\ IdleConvert /\ IdleRegistry /\ IdleRead
    /\ IdleNew

NotFp == <<files, vevent, vissues, vstage, vflip, fexpr, fstage, fevent, fresult, cv, reg, rd, vtx, stream, pmeta, lread>>

Perturb(i, k, d) ==
    /\ fp.change.op = "none"
    /\ i \in 1..Len(fp.ev.particles)
    /\ fp.ev.particles[i].status # 3
    /\ LET p == fp.ev.particles[i]
       IN fp' = [fp EXCEPT !.ev.particles[i] = SetComponent(p, k, Component(p, k) + d),
                           !.change = [op |-> "perturb", index |-> i, component |-> k, d |-> d]]
    /\ UNCHANGED NotFp

Reorder(perm) ==
    /\ fp.change.op = "none"
    /\ perm # [i \in 1..Len(fp.ev.particles) |-> i]
    /\ fp' = [fp EXCEPT !.ev.particles = Permute(fp.ev.particles, perm),
                        !.change = [NoChange EXCEPT !.op = "reorder"]]
    /\ UNCHANGED NotFp

AddStatus3(i, p) ==
    /\ fp.change.op = "none"
    /\ Len(fp.ev.particles) < MaxParticles
    /\ p.status = 3
    /\ fp' = [fp EXCEPT !.ev.particles = InsertAt(fp.ev.particles, i, p),
                        !.change = [NoChange EXCEPT !.op = "add3", !.index = i]]
    /\ UNCHANGED NotFp

RemoveStatus3(i) ==
    /\ fp.change.op = "none"
    /\ fp.ev.particles[i].status = 3
    /\ fp' = [fp EXCEPT !.ev.particles = RemoveAt(fp.ev.particles, i),
                        !.change = [NoChange EXCEPT !.op = "remove3", !.index = i]]
    /\ UNCHANGED NotFp

NextFingerprint ==
    \/ \E i \in 1..MaxParticles, k \in Components, d \in Perturbations : Perturb(i, k, d)
    \/ \E perm \in Perms(1..Len(fp.ev.particles)) : Reorder(perm)
    \/ \E i \in 1..Len(fp.ev.particles) + 1, p \in FpParticles : AddStatus3(i, p)
    \/ \E i \in 1..Len(fp.ev.particles) : RemoveStatus3(i)

SpecFingerprint == InitFingerprint /\ [][NextFingerprint]_vars

(***************************************************************************)
(* Properties of the fingerprinter (SpecFingerprint).                      *)
(***************************************************************************)
\* The bucket of the perturbed component before and after the perturbation.
BucketBefore == _quantize(Component(fp.base.particles[fp.change.index], fp.change.component))

BucketAfter == _quantize(Component(fp.ev.particles[fp.change.index], fp.change.component))

\* C11 as stated: a perturbation of less than abs_tol/2 on one momentum component
\* of a surviving particle leaves fingerprint_event unchanged.
PerturbationKeepsFingerprint ==
    (fp.change.op = "perturb" /\ Survives(fp.base.particles[fp.change.index], DefaultConfig)) =>
        fingerprint_event(fp.ev, DefaultConfig) = fingerprint_event(fp.base, DefaultConfig)

\* C11: a perturbation of less than abs_tol/2 on one momentum component of a
\* surviving particle moves that component's bucket round(x/abs_tol) by at most
\* one, and fingerprint_event is unchanged exactly when the bucket is unchanged.
PerturbationMovesAtMostOneBucket ==
    \A cfg \in Configs :
        (fp.change.op = "perturb" /\ Survives(fp.base.particles[fp.change.index], cfg)) =>
            /\ Abs(BucketAfter - BucketBefore) <= 1
            /\ (fingerprint_event(fp.ev, cfg) = fingerprint_event(fp.base, cfg))
                   <=> (BucketAfter = BucketBefore)

\* Reached: the energy of a surviving particle was perturbed inside its bucket, and
\* (another state) a component was perturbed across a bucket boundary.
PerturbationMovesAtMostOneBucketWitness ==
    /\ fp.change.op = "perturb" /\ fp.change.component = "energy"
    /\ Survives(fp.base.particles[fp.change.index], DefaultConfig)
    /\ BucketAfter = BucketBefore
    /\ fp.ev.particles[fp.change.index].energy # fp.base.particles[fp.change.index].energy

\* C12: reordering the particles of an event, and adding or removing a status 3
\* particle, leaves fingerprint_event unchanged under every configuration.
FingerprintIsMultisetFunction ==
    \A cfg \in Configs :
        fp.change.op \in {"reorder", "add3", "remove3"} =>
            fingerprint_event(fp.ev, cfg) = fingerprint_event(fp.base, cfg)

\* Reached: an event whose particles were put in another order, two of them with
\* different projected tuples.
FingerprintIsMultisetFunctionWitness ==
    /\ fp.change.op = "reorder"
    /\ SelectKeys(fp.ev.particles, DefaultConfig) # SelectKeys(fp.base.particles, DefaultConfig)
    /\ Len(SelectKeys(fp.ev.particles, DefaultConfig)) >= 2


(***************************************************************************)
(* Properties of the loss observer inside convert() (SpecConvert).         *)
(***************************************************************************)
\* The events that went through the observer so far are the ones the writer holds.
MultiWeightEvents(events) == {i \in 1..Len(events) : Len(events[i].weights) > 1}

\* LHEWriter.write and CSVWriter.write store one weight (LHE) or none (CSV, TSV).
SingleWeightTargets == {"lhe", "csv", "tsv"}

\* C13: when the target stores at most one weight per event, dropped_weights is the
\* number of events with more than one weight that went through the loss observer.
DroppedWeightsCountsMultiWeightEvents ==
    (cv.pc \in {"writing", "written", "done"} /\ cv.output_format \in SingleWeightTargets) =>
        cv.loss_counter.dropped_weights = Cardinality(MultiWeightEvents(cv.out.events))


(***************************************************************************)
(* Format registry (io/registry.py).  _REGISTRY is a dict from format tag  *)
(* to FormatHandlers: a function whose domain is the set of its keys.  A   *)
(* factory is named by an identifier; calling it is recorded by its name.  *)
(***************************************************************************)
MaxRegistrations == 3

FormatHandlers(reader, writer) == [reader |-> reader, writer |-> writer]

\* _REGISTRY[fmt] = FormatHandlers(...), keeping the first registration of a tag.
registerKeepFirst(registry, fmt, reader, writer) ==
    [t \in DOMAIN registry \cup {fmt} |->
        IF t \in DOMAIN registry THEN registry[t] ELSE FormatHandlers(reader, writer)]

\* _REGISTRY[fmt] = FormatHandlers(reader=reader, writer=writer)
register(registry, fmt, reader, writer) ==
    [t \in DOMAIN registry \cup {fmt} |->
        IF t = fmt THEN FormatHandlers(reader, writer) ELSE registry[t]]

get_reader(registry, fmt) ==
    IF fmt \notin DOMAIN registry THEN [raised |-> "ValueError", called |-> ""]
    ELSE [raised |-> "", called |-> registry[fmt].reader]

get_writer(registry, fmt) ==
    IF fmt \notin DOMAIN registry THEN [raised |-> "ValueError", called |-> ""]
    ELSE [raised |-> "", called |-> registry[fmt].writer]

(***************************************************************************)
(* SpecRegistry: register, get_reader and get_writer are called in any     *)
(* order; reg keeps the registry, the registry before the last call, the   *)
(* list of the register calls made and what the last call did.             *)
(***************************************************************************)
RegistryTags == {"lhe", "hepmc3"}

ReaderFactories == {"reader_a", "reader_b"}

WriterFactories == {"writer_a", "writer_b"}

EmptyRegistry == [t \in {} |-> FormatHandlers("", "")]

NoCall == [op |-> "none", fmt |-> "", raised |-> "", called |-> ""]

InitRegistry ==
    /\ reg = [registry |-> EmptyRegistry, before |-> EmptyRegistry, calls |-> << >>,
              last |-> NoCall, lookups |-> 0]
    /\ IdleFormats /\ IdleValidate /\ IdleFilter /\ IdleConvert /\ IdleFingerprint /\ IdleRead
    /\ IdleNew

NotReg == <<files, vevent, vissues, vstage, vflip, fexpr, fstage, fevent, fresult, cv, fp, rd, vtx, stream, pmeta, lread>>

CallRegister(fmt, reader, writer) ==
    /\ Len(reg.calls) < MaxRegistrations
    /\ reg' = [reg EXCEPT !.registry = register(reg.registry, fmt, reader, writer),
                          !.before = reg.registry,
                          !.calls = Append(@, [fmt |-> fmt, handlers |-> FormatHandlers(reader, writer)]),
                          !.last = [NoCall EXCEPT !.op = "register", !.fmt = fmt],
                          !.lookups = 0]
    /\ UNCHANGED NotReg

CallGetReader(fmt) ==
    /\ reg.lookups < 2
    /\ LET r == get_reader(reg.registry, fmt)
       IN reg' = [reg EXCEPT !.before = reg.registry, !.lookups = @ + 1,
                             !.last = [op |-> "get_reader", fmt |-> fmt,
                                       raised |-> r.raised, called |-> r.called]]
    /\ UNCHANGED NotReg

CallGetWriter(fmt) ==
    /\ reg.lookups < 2
    /\ LET r == get_writer(reg.registry, fmt)
       IN reg' = [reg EXCEPT !.before = reg.registry, !.lookups = @ + 1,
                             !.last = [op |-> "get_writer", fmt |-> fmt,
                                       raised |-> r.raised, called |-> r.called]]
    /\ UNCHANGED NotReg

NextRegistry ==
    \/ \E fmt \in RegistryTags, r \in ReaderFactories, w \in WriterFactories :
          CallRegister(fmt, r, w)
    \/ \E fmt \in RegistryTags : CallGetReader(fmt)
    \/ \E fmt \in RegistryTags : CallGetWriter(fmt)

SpecRegistry == InitRegistry /\ [][NextRegistry]_vars

\* The register calls made for tag t, oldest first.
RegistrationsOf(t) == SelectSeq(reg.calls, LAMBDA c : c.fmt = t)

\* C14: a lookup calls the factory of the most recent registration of its tag (and
\* raises ValueError when there is none) and leaves the registry as it was; a
\* registration leaves the entry of every other tag as it was.
RegistryKeepsLatestRegistration ==
    /\ reg.last.op \in {"get_reader", "get_writer"} =>
          /\ reg.registry = reg.before
          /\ LET regs == RegistrationsOf(reg.last.fmt)
             IN IF regs = << >> THEN reg.last.raised = "ValueError"
                ELSE /\ reg.last.raised = ""
                     /\ reg.last.called = IF reg.last.op = "get_reader"
                                          THEN regs[Len(regs)].handlers.reader
                                          ELSE regs[Len(regs)].handlers.writer
    /\ reg.last.op = "register" =>
          /\ DOMAIN reg.registry = DOMAIN reg.before \cup {reg.last.fmt}
          /\ \A t \in DOMAIN reg.before : t # reg.last.fmt => reg.registry[t] = reg.before[t]

\* Reached: a tag was registered twice with different factories while another tag
\* was registered, and get_reader then called the reader factory of the second.
RegistryKeepsLatestRegistrationWitness ==
    /\ reg.last.op = "get_reader" /\ reg.last.fmt = "lhe"
    /\ Len(RegistrationsOf("lhe")) = 2
    /\ RegistrationsOf("lhe")[1].handlers.reader # RegistrationsOf("lhe")[2].handlers.reader
    /\ reg.last.called = RegistrationsOf("lhe")[2].handlers.reader
    /\ "hepmc3" \in DOMAIN reg.registry


(***************************************************************************)
(* SpecRead: one reader call on a file with edge-case records.  An LHE     *)
(* file is read by iter_lhe; a HepMC3 file is read line by line by the     *)
(* generator of iter_hepmc3_with_runinfo.                                  *)
(***************************************************************************)
\* <weights> and <rwgt> blocks with no, one or two entries, and a trailer line of
\* generator tokens, as in tests/fixtures/edge_cases.lhe.
WeightsBlocks ==
    {<< >>,
     <<Line("<weights>", << >>, << >>), Line("<weight>", <<One>>, <<"nominal">>),
       Line("</weights>", << >>, << >>)>>,
     <<Line("<weights>", << >>, << >>), Line("<weight>", <<One>>, <<"nominal">>),
       Line("<weight>", <<One - 8000>>, <<"pdf_alt">>), Line("</weights>", << >>, << >>)>>}

RwgtBlocks ==
    {<< >>,
     <<Line("<rwgt>", << >>, << >>), Line("<wgt>", <<One - 4000>>, <<"mur=0.5_muf=0.5">>),
       Line("</rwgt>", << >>, << >>)>>,
     <<Line("<rwgt>", << >>, << >>), Line("<wgt>", <<One - 4000>>, <<"mur=0.5_muf=0.5">>),
       Line("<wgt>", <<One + 4000>>, <<"mur=2.0_muf=2.0">>), Line("</rwgt>", << >>, << >>)>>}

Trailers == {<< >>, <<Line("tail", <<123, 18>>, <<"some_generator_token">>)>>}

EdgeLheFiles ==
    {LheFile(<<<<Line("<event>", << >>, << >>), Line("row", <<2, 42, One>>, << >>),
                 LheRow(21, -1, 0, 0, 0, 40, 40, 0), LheRow(21, 1, 0, 0, 0, -40, 40, 0)>>
               \o t \o w \o r \o <<Line("</event>", << >>, << >>)>> >>) :
        t \in Trailers, w \in WeightsBlocks, r \in RwgtBlocks}

\* Records inside an event, as in tests/fixtures/edge_cases.hepmc.
EventScopeRecords ==
    {Line("C", <<12000, 500>>, <<"pb">>), Line("A", << >>, <<"key1", "value1">>),
     Line("A", << >>, <<"key2", "value2">>)}

RunScopeRecords ==
    {<< >>,
     <<Line("F", << >>, <<"generator=ExampleGen", "version=1.2.3">>),
       Line("C", << >>, <<"xs=1.23", "err=0.04", "unit=pb">>)>>}

EdgeHepMC3Files ==
    {HepMC3File(<<Line("U", << >>, <<"GEV", "MM">>)>> \o h,
                <<<<Line("E", <<7>>, << >>)>> \o recs
                  \o <<Line("W", <<One, One - 4000>>, << >>),
                       Line("P", <<1, 11, 1, 0, 0, 40, 40, 0>>, << >>)>> >>) :
        h \in RunScopeRecords, recs \in SeqsUpTo(EventScopeRecords, 2)}

HepMC3Start ==
    [run |-> RunInfo, events |-> << >>, open |-> FALSE, cur |-> Event(0), verts |-> << >>]

InitRead ==
    /\ rd \in {[format |-> f.format, lines |-> f.lines, pos |-> 1, st |-> HepMC3Start,
                events |-> << >>, run |-> RunInfo, done |-> FALSE] :
                  f \in EdgeLheFiles \cup EdgeHepMC3Files}
    /\ IdleFormats /\ IdleValidate /\ IdleFilter /\ IdleConvert /\ IdleFingerprint /\ IdleRegistry
    /\ IdleNew

NotRd == <<files, vevent, vissues, vstage, vflip, fexpr, fstage, fevent, fresult, cv, fp, reg, vtx, stream, pmeta, lread>>

\* list(iter_lhe(path))
ReadLheEvents ==
    /\ rd.format = "lhe" /\ ~rd.done
    /\ rd' = [rd EXCEPT !.events = iter_lhe(rd.lines, FALSE, << >>, 0),
                        !.pos = Len(rd.lines) + 1, !.done = TRUE]
    /\ UNCHANGED NotRd

\* One iteration of the loop over the lines of a HepMC3 file.
ReadHepMC3Line ==
    /\ rd.format = "hepmc3" /\ rd.pos <= Len(rd.lines)
    /\ rd' = [rd EXCEPT !.st = HepMC3Step(rd.st, rd.lines[rd.pos]), !.pos = @ + 1]
    /\ UNCHANGED NotRd

\* The end of the file: the open event is yielded.
ReadHepMC3End ==
    /\ rd.format = "hepmc3" /\ rd.pos > Len(rd.lines) /\ ~rd.done
    /\ rd' = [rd EXCEPT !.events = CloseEvent(rd.st), !.run = rd.st.run, !.done = TRUE]
    /\ UNCHANGED NotRd

NextRead == ReadLheEvents \/ ReadHepMC3Line \/ ReadHepMC3End

SpecRead == InitRead /\ [][NextRead]_vars

WithTag(lines, tag) == SelectSeq(lines, LAMBDA ln : ln.tag = tag)

IdsOf(lines) == [i \in 1..Len(lines) |-> lines[i].strs[1]]

ValuesOf(lines) == [i \in 1..Len(lines) |-> lines[i].ints[1]]

\* C15: the event read from an LHE block holds the header weight followed by the
\* values of the <weight> and <wgt> entries of the block, extra["lhe"] records the
\* ids of the entries under weights and rwgt, and the trailer lines under tail.
LheWeightBlocksAreRead ==
    (rd.format = "lhe" /\ rd.done) =>
        LET ws == WithTag(rd.lines, "<weight>")
            rs == WithTag(rd.lines, "<wgt>")
            ts == WithTag(rd.lines, "tail")
            ev == rd.events[1]
        IN /\ Len(rd.events) = 1
           /\ Len(ev.weights) >= 1 + Len(ws) + Len(rs)
           /\ ev.weights = <<One>> \o ValuesOf(ws) \o ValuesOf(rs)
           /\ (Len(ws) + Len(rs) + Len(ts) > 0) =>
                 /\ ev.extra.lhe # << >>
                 /\ ev.extra.lhe[1].weights = IdsOf(ws)
                 /\ ev.extra.lhe[1].rwgt = IdsOf(rs)
                 /\ ev.extra.lhe[1].tail = ts

\* The records of the file before its first E record, and after it.
FirstE(lines) == CHOOSE i \in 1..Len(lines) : lines[i].tag = "E" /\ \A j \in 1..i-1 : lines[j].tag # "E"

\* C16: an A or C record after an E record is stored, in file order, under
\* extra.hepmc3.A or extra.hepmc3.C of the open event, and the run-level
\* extra.hepmc3.F and .C hold the F and C records before the first E only.
HepMC3EventScopeRecords ==
    (rd.format = "hepmc3" /\ rd.done) =>
        LET e == FirstE(rd.lines)
            head == SubSeq(rd.lines, 1, e - 1)
            body == SubSeq(rd.lines, e + 1, Len(rd.lines))
            ev == rd.events[1]
        IN /\ Len(rd.events) = 1
           /\ ev.extra.A = WithTag(body, "A")
           /\ ev.extra.C = WithTag(body, "C")
           /\ rd.run.C = WithTag(head, "C")
           /\ rd.run.F = WithTag(head, "F")


(***************************************************************************)
(* Properties of the momentum check (SpecValidate).                        *)
(***************************************************************************)
MomentumLabels == <<"px", "py", "pz", "E">>

\* The error issues of the last validate_event call that name component j.
MomentumErrors(j) ==
    {i \in 1..Len(vissues) : /\ vissues[i].level = "error"
                             /\ vissues[i].message = MomentumLabels[j]}

\* The sum of component j over the particles of status st; an empty sum is 0.
StatusSum(ev, st, j) ==
    SumSeq([i \in 1..Len(ev.particles) |->
              IF ev.particles[i].status = st
              THEN Component(ev.particles[i], <<"px", "py", "pz", "energy">>[j]) ELSE 0])

\* |sum_in_j - sum_out_j| / max(|sum_in_E|, |sum_out_E|, 1e-10) > momentum_tolerance;
\* one tick is far above 1e-10 * momentum_tolerance.
Unbalanced(ev, j) ==
    LET total == Max2(Abs(StatusSum(ev, -1, 4)), Abs(StatusSum(ev, 1, 4)))
        diff == Abs(StatusSum(ev, -1, j) - StatusSum(ev, 1, j))
    IN IF total = 0 THEN diff > 0 ELSE diff * ToleranceDenominator > total

HasStatus(ev, st) == \E i \in 1..Len(ev.particles) : ev.particles[i].status = st

\* C17 as stated: validate_event emits an error for component j exactly when the
\* relative difference of the incoming and outgoing sums exceeds the tolerance,
\* an empty set of particles summing to 0.
MomentumErrorIffUnbalanced ==
    vstage \in {"checked", "rechecked"} =>
        \A j \in 1..4 : (MomentumErrors(j) # {}) <=> Unbalanced(vevent, j)

\* C17: validate_event emits one error for component j exactly when the event has
\* both a status -1 and a status 1 particle and the relative difference of their
\* sums exceeds the tolerance; with either set empty it emits no momentum error.
MomentumErrorIffUnbalancedWithBothSides ==
    vstage \in {"checked", "rechecked"} =>
        \A j \in 1..4 :
            /\ (MomentumErrors(j) # {}) <=>
                   (HasStatus(vevent, -1) /\ HasStatus(vevent, 1) /\ Unbalanced(vevent, j))
            /\ Cardinality(MomentumErrors(j)) <= 1

\* Reached: an event with incoming and outgoing particles whose px sums differ
\* while the energy sums agree, validated with an error for px and none for E.
MomentumErrorIffUnbalancedWithBothSidesWitness ==
    /\ vstage = "checked"
    /\ HasStatus(vevent, -1) /\ HasStatus(vevent, 1)
    /\ MomentumErrors(1) # {} /\ MomentumErrors(4) = {}
    /\ Unbalanced(vevent, 1) /\ ~Unbalanced(vevent, 4)


\* C18: during convert no stage holds more than one event of the input at a time.
ConvertHoldsOneEventAtATime == cv.held <= 1


\* C19: the observed section of the emitted report holds the loss observer's
\* counters as they are after the writer consumed the whole stream.
ReportHoldsFinalCounters ==
    cv.pc = "done" =>
        /\ cv.doc.observed.dropped_fields = SortKeys(cv.loss_counter.dropped_fields)
        /\ cv.doc.observed.loss_examples = SortKeys(cv.loss_counter.loss_examples)
        /\ cv.doc.observed.dropped_weights_events = cv.loss_counter.dropped_weights


\* The particles, as <<event, particle>> positions, and the events among those
\* that went through the observer whose field f is non-default.
NonDefaultParticles(events, f) ==
    {ij \in (1..Len(events)) \X (1..MaxParticles) :
        /\ ij[2] <= Len(events[ij[1]].particles)
        /\ _non_default(events[ij[1]].particles[ij[2]], f)}

NonDefaultEvents(events, g) == {i \in 1..Len(events) : _non_default(events[i], g)}

Min2(a, b) == IF a <= b THEN a ELSE b

\* C20: at every point of a conversion dropped_fields["particle.f"] is the number
\* of particles with a non-default f, and dropped_fields["event.g"] the number of
\* events with a non-default g, among the events that passed max_events and the
\* filter and went through the observer so far; each key keeps the examples of
\* its first five occurrences.
ObserverCountsDroppedFields ==
    cv.pc \in {"planned", "audited", "writing", "written", "done", "failed"} =>
        LET c == cv.loss_counter
            seen == cv.out.events
        IN /\ \A f \in Range(cv.plan.dropped_particle_fields) :
                 /\ Get(c.dropped_fields, <<"particle", f>>, 0)
                        = Cardinality(NonDefaultParticles(seen, f))
                 /\ Len(Get(c.loss_examples, <<"particle", f>>, << >>))
                        = Min2(Cardinality(NonDefaultParticles(seen, f)), 5)
           /\ \A g \in Range(cv.plan.dropped_event_fields) \ {"weights"} :
                 /\ Get(c.dropped_fields, <<"event", g>>, 0)
                        = Cardinality(NonDefaultEvents(seen, g))
                 /\ Len(Get(c.loss_examples, <<"event", g>>, << >>))
                        = Min2(Cardinality(NonDefaultEvents(seen, g)), 5)
           /\ cv.max_events >= 0 => Len(seen) <= cv.max_events
           /\ \A i \in 1..Len(seen) :
                 cv.filter_expr = NoFilter \/ eval_filter(cv.filter_expr, seen[i]).value

\* Reached: a conversion in which six particles with a barcode went through the
\* observer for a target without barcodes, and five examples were kept.
ObserverCountsDroppedFieldsWitness ==
    /\ cv.pc = "done"
    /\ Get(cv.loss_counter.dropped_fields, <<"particle", "barcode">>, 0) = 6
    /\ Len(Get(cv.loss_counter.loss_examples, <<"particle", "barcode">>, << >>)) = 5


(***************************************************************************)
(* Soundness of the loss plan against the writers and readers              *)
(* (SpecFormats).                                                          *)
(***************************************************************************)
\* The fields of the source's capability set the plan does not list as dropped.
KeptFields(plan, scope) ==
    _CAPABILITIES[plan.input_format][scope]
        \ Range(CASE scope = "particle_fields" -> plan.dropped_particle_fields
                  [] scope = "event_fields" -> plan.dropped_event_fields
                  [] scope = "run_fields" -> plan.dropped_run_fields)

\* C21: for every conversion between built-in formats, every run, event and
\* particle field of the source's capability set that the loss plan does not list
\* as dropped has, in the file read back, the value it had in the source.
LossPlanIsSound ==
    \A k \in 1..Len(files) - 1 :
        LET src == ReadFile(files[k])
            dst == ReadFile(files[k + 1])
            plan == loss_plan(files[k].format, files[k + 1].format)
        IN /\ \A f \in KeptFields(plan, "run_fields") \cap DOMAIN RunInfo :
                 dst.run_info[f] = src.run_info[f]
           /\ Len(dst.events) = Len(src.events)
           /\ \A i \in 1..Min2(Len(src.events), Len(dst.events)) :
                 /\ \A f \in KeptFields(plan, "event_fields") \cap DOMAIN Event(0) :
                       dst.events[i][f] = src.events[i][f]
                 /\ Len(dst.events[i].particles) = Len(src.events[i].particles)
                 /\ \A j \in 1..Min2(Len(src.events[i].particles),
                                     Len(dst.events[i].particles)) :
                       \A f \in KeptFields(plan, "particle_fields") :
                           dst.events[i].particles[j][f] = src.events[i].particles[j][f]

\* The beams of an LHE file after a conversion to HepMC3.
LheToHepMC3KeepsBeams ==
    \A k \in 1..Len(files) - 1 :
        (files[k].format = "lhe" /\ files[k + 1].format = "hepmc3")
        => /\ ReadFile(files[k + 1]).run_info.beam_pdg_id = ReadFile(files[k]).run_info.beam_pdg_id
           /\ ReadFile(files[k + 1]).run_info.beam_energy = ReadFile(files[k]).run_info.beam_energy


(***************************************************************************)
(* Raw HepMC3 status codes through the reader and the writer (SpecFormats).*)
(***************************************************************************)
PRecords(f) == {i \in 1..Len(f.lines) : f.lines[i].tag = "P" /\ Len(f.lines[i].ints) >= 8}

\* C22: for every P record of a HepMC3 file, reading the record and writing the
\* particle with the HepMC3 writer emits the raw status code of the record again.
HepMC3WriterRestoresRawStatus ==
    \A k \in 1..Len(files) :
        files[k].format = "hepmc3"
        => \A i \in PRecords(files[k]) :
              OutStatus(ParseP(files[k].lines[i].ints)) = files[k].lines[i].ints[3]


(***************************************************************************)
(* SpecVertices: the two vertex reconstructors, io/hepmc3.py and           *)
(* io/parquet.py, each run up to MaxTime times on its own copy of an event.*)
(***************************************************************************)
VtxParticle(st, m1, m2, bc) ==
    [Particle(21, st, 0, 0, 0, 0, 0) EXCEPT !.mother1 = m1, !.mother2 = m2, !.barcode = bc]

\* Incoming particles without and with a preset barcode; children naming their
\* mothers in either order; a particle without mothers; a mother index outside
\* the event; a produced particle with a preset barcode.
VtxParticles ==
    {VtxParticle(-1, 0, 0, 0), VtxParticle(-1, 0, 0, 9), VtxParticle(1, 1, 2, 0),
     VtxParticle(1, 2, 1, 0), VtxParticle(1, 0, 0, 0), VtxParticle(2, 1, 5, 0),
     VtxParticle(1, 1, 1, 1)}

\* Events without vertices, and the same events with a vertex already present.
VtxEvents ==
    {[Event(1) EXCEPT !.particles = ps, !.n_particles = Len(ps), !.vertices = vs0] :
        ps \in SeqsUpTo(VtxParticles, MaxParticles), vs0 \in {<< >>, <<Vertex(-7)>>}}

InitVertices ==
    /\ vtx \in {[input |-> ev, hepmc3 |-> ev, parquet |-> ev, hepmc3_runs |-> 0,
                 parquet_runs |-> 0, hepmc3_before |-> ev] : ev \in VtxEvents}
    /\ IdleFormats /\ IdleValidate /\ IdleFilter /\ IdleConvert
    /\ IdleFingerprint /\ IdleRegistry /\ IdleRead /\ IdleStream /\ IdleMeta /\ IdleLhe

NotVtx == <<files, vevent, vissues, vstage, vflip, fexpr, fstage, fevent, fresult, cv, fp, reg,
            rd, stream, pmeta, lread>>

\* io/hepmc3.py: _build_vertices_from_mothers(ev), mutating ev in place.
RunHepMC3Reconstructor ==
    /\ vtx # << >>
    /\ vtx.hepmc3_runs < MaxTime
    /\ vtx' = [vtx EXCEPT !.hepmc3 = _build_vertices_from_mothers(@),
                          !.hepmc3_before = vtx.hepmc3,
                          !.hepmc3_runs = @ + 1]
    /\ UNCHANGED NotVtx

\* io/parquet.py: _build_vertices_from_mothers(ev), mutating ev in place.
RunParquetReconstructor ==
    /\ vtx # << >>
    /\ vtx.parquet_runs < MaxTime
    /\ vtx' = [vtx EXCEPT !.parquet = ParquetBuildVertices(@), !.parquet_runs = @ + 1]
    /\ UNCHANGED NotVtx

NextVertices == RunHepMC3Reconstructor \/ RunParquetReconstructor

SpecVertices == InitVertices /\ [][NextVertices]_vars

MotherPair(p) == {p.mother1, p.mother2}

Produced(ev) == {i \in 1..Len(ev.particles) : ev.particles[i].status # -1}

\* The number, counted from 1, of the mother pair of particle i among the pairs of
\* the produced particles in order of first appearance.
PairRank(ev, i) ==
    LET first == CHOOSE j \in Produced(ev) :
                    /\ MotherPair(ev.particles[j]) = MotherPair(ev.particles[i])
                    /\ \A k \in Produced(ev) :
                          MotherPair(ev.particles[k]) = MotherPair(ev.particles[i]) => j <= k
    IN Cardinality({MotherPair(ev.particles[j]) : j \in {j \in Produced(ev) : j <= first}})

\* C23: after the reconstructor of io/hepmc3.py has run on an event without
\* vertices, two produced particles share their production vertex exactly when
\* their mother pairs are equal as unordered pairs, and the vertices are -1 .. -k,
\* numbered in order of first appearance of each pair; a further run, or a run on
\* an event that has vertices, changes nothing.
ReconstructorGroupsByMotherPair ==
    (vtx # << >> /\ vtx.hepmc3_runs >= 1)
    => /\ vtx.input.vertices = << >>
          => LET ev == vtx.hepmc3
                 k == Cardinality({MotherPair(ev.particles[i]) : i \in Produced(ev)})
             IN /\ \A i, j \in Produced(ev) :
                       (ev.particles[i].vertex_barcode = ev.particles[j].vertex_barcode)
                       <=> (MotherPair(ev.particles[i]) = MotherPair(ev.particles[j]))
                /\ \A i \in Produced(ev) : ev.particles[i].vertex_barcode = -PairRank(ev, i)
                /\ {ev.vertices[n].barcode : n \in 1..Len(ev.vertices)} = {-n : n \in 1..k}
                /\ Len(ev.vertices) = k
       /\ (vtx.input.vertices # << >> \/ vtx.hepmc3_runs >= 2)
          => vtx.hepmc3 = vtx.hepmc3_before

ReconstructorGroupsByMotherPairWitness ==
    /\ vtx # << >> /\ vtx.hepmc3_runs = 2 /\ vtx.input.vertices = << >>
    /\ Len(vtx.hepmc3.particles) = 3
    /\ vtx.hepmc3.particles[1].vertex_barcode = -1
    /\ vtx.hepmc3.particles[2].vertex_barcode = -2
    /\ vtx.hepmc3.particles[3].vertex_barcode = -1
    /\ MotherKey(vtx.input.particles[1]) = <<1, 2>>
    /\ vtx.input.particles[1].mother1 = 2
    /\ vtx.input.particles[3].mother1 = 1


Triples(ev) ==
    [i \in 1..Len(ev.particles) |->
        <<ev.particles[i].barcode, ev.particles[i].vertex_barcode,
          ev.particles[i].end_vertex_barcode>>]

\* C24: on every event without vertices the reconstructor of io/hepmc3.py and the
\* one of io/parquet.py give every particle the same (barcode, vertex_barcode,
\* end_vertex_barcode), and both give every incoming particle production vertex 0.
ReconstructorsAgree ==
    (/\ vtx # << >> /\ vtx.input.vertices = << >>
     /\ vtx.hepmc3_runs >= 1 /\ vtx.parquet_runs >= 1)
    => /\ Triples(vtx.hepmc3) = Triples(vtx.parquet)
       /\ \A i \in 1..Len(vtx.input.particles) :
             vtx.input.particles[i].status = -1
             => /\ vtx.hepmc3.particles[i].vertex_barcode = 0
                /\ vtx.parquet.particles[i].vertex_barcode = 0

IsSortedUnique(s) == \A i \in 1..Len(s) - 1 : s[i] < s[i + 1]

\* C25: after the reconstructor of io/hepmc3.py has run on an event without
\* vertices, particle barcodes are unique, every barcode in a vertex list is a
\* particle's, every non-zero vertex reference of a particle is a vertex of the
\* event, a particle's end vertex lists it as incoming, and every incoming and
\* outgoing list is duplicate-free and ascending.
ReconstructedGraphIsWellFormed ==
    (vtx # << >> /\ vtx.input.vertices = << >> /\ vtx.hepmc3_runs >= 1)
    => LET ev == vtx.hepmc3
           n == Len(ev.particles)
           pbars == {ev.particles[i].barcode : i \in 1..n}
           vbars == {ev.vertices[k].barcode : k \in 1..Len(ev.vertices)}
       IN /\ Cardinality(pbars) = n
          /\ \A k \in 1..Len(ev.vertices) :
                /\ Range(ev.vertices[k].incoming) \subseteq pbars
                /\ Range(ev.vertices[k].outgoing) \subseteq pbars
                /\ IsSortedUnique(ev.vertices[k].incoming)
                /\ IsSortedUnique(ev.vertices[k].outgoing)
          /\ \A i \in 1..n :
                /\ ev.particles[i].vertex_barcode # 0 => ev.particles[i].vertex_barcode \in vbars
                /\ ev.particles[i].end_vertex_barcode # 0
                   => \E k \in 1..Len(ev.vertices) :
                         /\ ev.vertices[k].barcode = ev.particles[i].end_vertex_barcode
                         /\ ev.particles[i].barcode \in Range(ev.vertices[k].incoming)

\* Step 5 of the reconstructor alone: the incoming and outgoing lists are
\* deduplicated and sorted.
VertexListsAreSorted ==
    (vtx # << >> /\ vtx.input.vertices = << >> /\ vtx.hepmc3_runs >= 1)
    => \A k \in 1..Len(vtx.hepmc3.vertices) :
          /\ IsSortedUnique(vtx.hepmc3.vertices[k].incoming)
          /\ IsSortedUnique(vtx.hepmc3.vertices[k].outgoing)


(***************************************************************************)
(* SpecStream: one validate_stream generator (validation.py) with the      *)
(* default max_events = -1, pulled by its consumer until it ends.          *)
(***************************************************************************)
ErrorsOf(issues) == SelectSeq(issues, LAMBDA iss : iss.level = "error")

\* if errors and strict: raise ValueError(str(errors[0]))
RaisesOnAnyIssue(issues, strict) == issues # << >> /\ strict

Raises(issues, strict) == ErrorsOf(issues) # << >> /\ strict

\* if issues: event.extra["validation_issues"] = [str(x) for x in issues]
AnnotateErrorsOnly(ev, issues) ==
    IF ErrorsOf(issues) # << >> THEN [ev EXCEPT !.extra.validation_issues = issues] ELSE ev

Annotate(ev, issues) ==
    IF issues # << >> THEN [ev EXCEPT !.extra.validation_issues = issues] ELSE ev

StreamEvent(n, ps) == [Event(n) EXCEPT !.particles = ps, !.n_particles = Len(ps)]

\* A balanced 2 -> 1 event; an event without particles (a warning); an unknown
\* PDG id with an inconsistent mass (warnings); a negative energy (an error); the
\* same with an unknown PDG id (an error and a warning).
FreshStreamEvents ==
    {StreamEvent(1, <<Particle(21, -1, 0, 0, 40, 40, 0), Particle(21, -1, 0, 0, -40, 40, 0),
                      Particle(25, 1, 0, 0, 0, 80, 80)>>),
     StreamEvent(2, << >>),
     StreamEvent(3, <<Particle(0, 2, 0, 0, 0, 80, 40)>>),
     StreamEvent(4, <<Particle(11, 1, 0, 0, 0, -40, 0)>>),
     StreamEvent(5, <<Particle(0, 1, 0, 0, 0, -40, 0)>>)}

\* Events as a reader hands them over, and events that an earlier validate_stream
\* with the same settings annotated (read back from a Parquet file, which keeps
\* Event.extra).
StreamEvents == FreshStreamEvents \cup {Annotate(ev, validate_event(ev)) : ev \in FreshStreamEvents}

InitStream ==
    /\ stream \in {[input |-> evs, strict |-> s, pos |-> 1, yielded |-> << >>, raised |-> 0,
                    state |-> "running", stops |-> 0] :
                   evs \in SeqsUpTo(StreamEvents, MaxEvents), s \in BOOLEAN}
    /\ IdleFormats /\ IdleValidate /\ IdleFilter /\ IdleConvert
    /\ IdleFingerprint /\ IdleRegistry /\ IdleRead /\ IdleVertices /\ IdleMeta /\ IdleLhe

NotStream == <<files, vevent, vissues, vstage, vflip, fexpr, fstage, fevent, fresult, cv, fp, reg,
               rd, vtx, pmeta, lread>>

\* next(): the loop body runs to the yield.
PullYield ==
    /\ stream # << >> /\ stream.state = "running" /\ stream.pos <= Len(stream.input)
    /\ LET event == stream.input[stream.pos]
           issues == validate_event(event)
       IN /\ ~Raises(issues, stream.strict)
          /\ stream' = [stream EXCEPT !.yielded = Append(@, Annotate(event, issues)),
                                      !.pos = @ + 1]
    /\ UNCHANGED NotStream

\* next(): the loop body raises ValueError, which ends the generator.
PullRaise ==
    /\ stream # << >> /\ stream.state = "running" /\ stream.pos <= Len(stream.input)
    /\ Raises(validate_event(stream.input[stream.pos]), stream.strict)
    /\ stream' = [stream EXCEPT !.raised = @ + 1, !.state = "closed"]
    /\ UNCHANGED NotStream

\* next() on the exhausted input or on the generator that raised: StopIteration.
PullStop ==
    /\ stream # << >> /\ stream.stops < MaxTime
    /\ stream.state = "closed" \/ stream.pos > Len(stream.input)
    /\ stream' = [stream EXCEPT !.stops = @ + 1, !.state = "closed"]
    /\ UNCHANGED NotStream

NextStream == PullYield \/ PullRaise \/ PullStop

SpecStream == InitStream /\ [][NextStream]_vars

\* An event with the key validation_issues of its extra removed.
WithoutIssues(ev) == [ev EXCEPT !.extra.validation_issues = << >>]

HasErrors(ev) == ErrorsOf(validate_event(ev)) # << >>

\* C27: in strict mode validate_stream raises once, at the first event with an
\* error-level issue; it yields the events before that event, in order, never an
\* event with an error-level issue, and events with warnings only are yielded.
StrictStreamRaisesAtFirstError ==
    (stream # << >> /\ stream.strict)
    => LET bad == {i \in 1..Len(stream.input) : HasErrors(stream.input[i])}
       IN /\ stream.raised <= 1
          /\ Len(stream.yielded) = stream.pos - 1
          /\ \A i \in 1..Len(stream.yielded) :
                /\ WithoutIssues(stream.yielded[i]) = WithoutIssues(stream.input[i])
                /\ ~HasErrors(stream.yielded[i])
          /\ stream.raised = 1 => stream.pos \in bad /\ \A i \in bad : stream.pos <= i
          /\ stream.state = "closed"
             => /\ stream.raised = 1 <=> bad # {}
                /\ bad = {} => Len(stream.yielded) = Len(stream.input)

StrictStreamRaisesAtFirstErrorWitness ==
    /\ stream # << >> /\ stream.strict /\ stream.raised = 1 /\ stream.stops = 1
    /\ Len(stream.yielded) = 1 /\ Len(stream.input) = 2
    /\ stream.yielded[1].extra.validation_issues # << >>
    /\ stream.input[1].extra.validation_issues = << >>


(***************************************************************************)
(* SpecLhe: one iter_lhe generator (io/lhe.py) over a file whose event     *)
(* blocks hold blank and comment lines and malformed tokens.  A line's     *)
(* strs are the tokens of a parsed column that int() and float() refuse.   *)
(***************************************************************************)
\* The buffers iter_lhe collects between <event> and </event>, in file order.
RECURSIVE EventBuffers(_, _, _)
EventBuffers(lines, in_event, buf) ==
    IF lines = << >> THEN << >>
    ELSE LET ln == Head(lines)
         IN IF ~in_event THEN EventBuffers(Tail(lines), ln.tag = "<event>", << >>)
            ELSE IF ln.tag = "</event>" THEN <<buf>> \o EventBuffers(Tail(lines), FALSE, << >>)
            ELSE EventBuffers(Tail(lines), TRUE, Append(buf, ln))

\* int(hp[0]), float(hp[2]) ...: ValueError on a token that is not a number.
MalformedHeader(ln) == ln.strs # << >>

\* int(cols[0]) ... float(cols[10]): ValueError on a token that is not a number,
\* IndexError on a row with fewer than eleven columns.
MalformedRow(ln) == ln.strs # << >> \/ Len(ln.ints) < 11

\* The particle loop raises: one of the lines it takes is a malformed row.
RECURSIVE RowsRaise(_, _, _)
RowsRaise(lines, idx, left) ==
    IF left = 0 \/ idx > Len(lines) THEN FALSE
    ELSE IF Skippable(lines[idx]) THEN RowsRaise(lines, idx + 1, left - 1)
    ELSE MalformedRow(lines[idx]) \/ RowsRaise(lines, idx + 1, left - 1)

\* _parse_event_block has no exception handler: the block raises when its header
\* or a row of its particle loop does.
BlockRaises(lines) ==
    LET heads == {i \in 1..Len(lines) : ~Skippable(lines[i])}
        h == CHOOSE i \in heads : \A j \in heads : i <= j
    IN heads # {} /\ (MalformedHeader(lines[h]) \/ RowsRaise(lines, h + 1, lines[h].ints[1]))

LheComment == Line("comment", << >>, <<"# generated by the matrix-element code">>)

LheBlank == Line("blank", << >>, << >>)

\* Blocks: two rows; a comment between the rows; a blank line between the header
\* and the row; a header weight 1.0D+01; a row energy 1.0D+01; a row with six
\* columns.
LheEdgeBlocks ==
    {<<Line("row", <<2, 1, One, 0, 0, 0>>, << >>),
       LheRow(21, -1, 0, 0, 0, 40, 40, 0), LheRow(25, 1, 1, 1, 0, 40, 40, 0)>>,
     <<Line("row", <<2, 1, One, 0, 0, 0>>, << >>),
       LheRow(21, -1, 0, 0, 0, 40, 40, 0), LheComment, LheRow(25, 1, 1, 1, 0, 40, 40, 0)>>,
     <<Line("row", <<1, 1, One, 0, 0, 0>>, << >>), LheBlank, LheRow(22, 1, 0, 0, 0, 40, 40, 0)>>,
     <<Line("row", <<1, 1, 0, 0, 0>>, <<"1.0D+01">>), LheRow(22, 1, 0, 0, 0, 40, 40, 0)>>,
     <<Line("row", <<1, 1, One, 0, 0, 0>>, << >>),
       Line("row", <<22, 1, 0, 0, 0, 0, 0, 0, 40, 0, 0, 9>>, <<"1.0D+01">>)>>,
     <<Line("row", <<1, 1, One, 0, 0, 0>>, << >>), Line("row", <<22, 1, 0, 0, 0, 0>>, << >>)>>}

LheEdgeFile(bs) ==
    LheFile([k \in 1..Len(bs) |->
                <<Line("<event>", << >>, << >>)>> \o bs[k] \o <<Line("</event>", << >>, << >>)>>])

InitLhe ==
    /\ lread \in {[blocks |-> bs, lines |-> LheEdgeFile(bs).lines, yielded |-> << >>,
                   raised |-> 0, state |-> "running", stops |-> 0] :
                  bs \in SeqsUpTo(LheEdgeBlocks, MaxEvents)}
    /\ IdleFormats /\ IdleValidate /\ IdleFilter /\ IdleConvert
    /\ IdleFingerprint /\ IdleRegistry /\ IdleRead /\ IdleVertices /\ IdleStream /\ IdleMeta

NotLhe == <<files, vevent, vissues, vstage, vflip, fexpr, fstage, fevent, fresult, cv, fp, reg,
            rd, vtx, stream, pmeta>>

\* next(): the lines up to the next </event> are buffered and the block is parsed.
LheNextYield ==
    /\ lread # << >> /\ lread.state = "running"
    /\ LET bufs == EventBuffers(lread.lines, FALSE, << >>)
           event_no == Len(lread.yielded) + 1
       IN /\ event_no <= Len(bufs)
          /\ ~BlockRaises(bufs[event_no])
          /\ lread' = [lread EXCEPT
                          !.yielded = Append(@, _parse_event_block(bufs[event_no], event_no))]
    /\ UNCHANGED NotLhe

\* next(): _parse_event_block raises inside the generator, which ends it.
LheNextRaise ==
    /\ lread # << >> /\ lread.state = "running"
    /\ LET bufs == EventBuffers(lread.lines, FALSE, << >>)
           event_no == Len(lread.yielded) + 1
       IN event_no <= Len(bufs) /\ BlockRaises(bufs[event_no])
    /\ lread' = [lread EXCEPT !.raised = @ + 1, !.state = "closed"]
    /\ UNCHANGED NotLhe

\* next() at the end of the file or on the generator that raised: StopIteration.
LheNextStop ==
    /\ lread # << >> /\ lread.stops < MaxTime
    /\ \/ lread.state = "closed"
       \/ Len(lread.yielded) = Len(EventBuffers(lread.lines, FALSE, << >>))
    /\ lread' = [lread EXCEPT !.stops = @ + 1, !.state = "closed"]
    /\ UNCHANGED NotLhe

NextLhe == LheNextYield \/ LheNextRaise \/ LheNextStop

SpecLhe == InitLhe /\ [][NextLhe]_vars

\* The lines of a block after its header that are neither blank nor comments.
DataLines(block) ==
    LET heads == {i \in 1..Len(block) : ~Skippable(block[i])}
        h == CHOOSE i \in heads : \A j \in heads : i <= j
    IN IF heads = {} THEN << >>
       ELSE SelectSeq(SubSeq(block, h + 1, Len(block)), LAMBDA ln : ~Skippable(ln))

\* C28: for every event block with at least nup non-blank non-comment lines after
\* its header, the event read has nup particles, built from the first nup such
\* lines in order, whatever blank or comment lines lie between them.
LheReaderSkipsBlankAndCommentLines ==
    lread # << >>
    => \A k \in 1..Len(lread.yielded) :
          LET nup == lread.yielded[k].n_particles
              data == DataLines(lread.blocks[k])
          IN Len(data) >= nup
             => /\ Len(lread.yielded[k].particles) = nup
                /\ \A j \in 1..Min2(nup, Len(lread.yielded[k].particles)) :
                      lread.yielded[k].particles[j] = ParseRows(<<data[j]>>, 1, 1)[1]

\* C29: a malformed numeric token in a header or in a particle row never ends the
\* event stream: the generator does not raise, and at the end of the file every
\* event block of the file has been yielded.
LheReaderToleratesMalformedTokens ==
    lread # << >>
    => /\ lread.raised = 0
       /\ lread.state = "closed" => Len(lread.yielded) = Len(lread.blocks)


(***************************************************************************)
(* SpecMeta: the schema metadata of a Parquet file is decoded into a       *)
(* RunInfo by the reader and a RunInfo is encoded into the metadata of the *)
(* next file by the writer (io/parquet.py).  A metadata dict is a record   *)
(* with one field per key, << >> for a key that is absent; a RunInfo is    *)
(* [run, parquet_schema_metadata], the second being that key of its extra. *)
(***************************************************************************)
MetaKeys == {"beam_pdg_id", "beam_energy", "weight_names", "generator_name",
             "generator_version", "units"}

MetaValues ==
    [beam_pdg_id |-> <<2212, 2212>>, beam_energy |-> <<6500 * One, 6500 * One>>,
     weight_names |-> <<"w0", "w1">>, generator_name |-> "MadGraph",
     generator_version |-> "3.5", units |-> [set |-> TRUE, vals |-> <<"GEV", "MM">>]]

\* Metadata of files written by another tool: run_info_json absent or not a JSON
\* object, and any subset of the individual keys.
ForeignMetadata ==
    {[k \in MetaKeys \cup {"run_info_json"} |->
        IF k = "run_info_json" THEN [kind |-> j]
        ELSE IF k \in S THEN <<MetaValues[k]>> ELSE << >>] :
     S \in SUBSET MetaKeys, j \in {"absent", "not_a_dict"}}

NoRunInfo == [run |-> RunInfo, parquet_schema_metadata |-> << >>]

_encode_run_info(run_info) ==
    [run_info_json |-> [kind |-> "dict", value |-> run_info],
     beam_pdg_id |-> <<run_info.run.beam_pdg_id>>,
     beam_energy |-> <<run_info.run.beam_energy>>,
     weight_names |-> <<run_info.run.weight_names>>,
     generator_name |-> <<run_info.run.generator_name>>,
     generator_version |-> <<run_info.run.generator_version>>,
     units |-> IF run_info.run.units.set THEN <<run_info.run.units>> ELSE << >>]

_decode_run_info(md) ==
    IF md.run_info_json.kind # "dict"
    THEN [run |-> RunInfo, parquet_schema_metadata |-> <<md>>]
    ELSE LET d == md.run_info_json.value
         IN [run |-> d.run,
             parquet_schema_metadata |->
                IF d.parquet_schema_metadata # << >> THEN d.parquet_schema_metadata ELSE <<md>>]

InitMeta ==
    /\ pmeta \in {[metadata |-> md, run_info |-> NoRunInfo, stage |-> "file", n_files |-> 1] :
                  md \in ForeignMetadata}
    /\ IdleFormats /\ IdleValidate /\ IdleFilter /\ IdleConvert
    /\ IdleFingerprint /\ IdleRegistry /\ IdleRead /\ IdleVertices /\ IdleStream /\ IdleLhe

NotMeta == <<files, vevent, vissues, vstage, vflip, fexpr, fstage, fevent, fresult, cv, fp, reg,
             rd, vtx, stream, lread>>

\* ParquetReader.read: run_info = _decode_run_info(md)
ReadParquetMetadata ==
    /\ pmeta # << >> /\ pmeta.stage = "file"
    /\ pmeta' = [pmeta EXCEPT !.run_info = _decode_run_info(pmeta.metadata), !.stage = "read"]
    /\ UNCHANGED NotMeta

\* ParquetWriter.write: the run info that was read becomes the metadata of a new file.
WriteParquetMetadata ==
    /\ pmeta # << >> /\ pmeta.stage = "read" /\ pmeta.n_files <= MaxChain
    /\ pmeta' = [pmeta EXCEPT !.metadata = _encode_run_info(pmeta.run_info),
                              !.stage = "file", !.n_files = @ + 1]
    /\ UNCHANGED NotMeta

NextMeta == ReadParquetMetadata \/ WriteParquetMetadata

SpecMeta == InitMeta /\ [][NextMeta]_vars

\* C30: when the metadata has no usable run_info_json, the RunInfo read has the
\* value of every individual key that is present and the default in the other
\* fields; in every case its extra holds the raw metadata of the file just read.
RunInfoFallsBackToIndividualKeys ==
    (pmeta # << >> /\ pmeta.stage = "read")
    => /\ pmeta.metadata.run_info_json.kind # "dict"
          => \A k \in MetaKeys :
                pmeta.run_info.run[k] = IF pmeta.metadata[k] # << >>
                                        THEN pmeta.metadata[k][1] ELSE RunInfo[k]
       /\ pmeta.run_info.parquet_schema_metadata = <<pmeta.metadata>>

\* The second half alone: the extra of the RunInfo holds the metadata just read.
RunInfoHoldsRawMetadata ==
    (pmeta # << >> /\ pmeta.stage = "read")
    => pmeta.run_info.parquet_schema_metadata = <<pmeta.metadata>>


=============================================================================
